---- MODULE Spec2Model ----
(***************************************************************************)
(* A model of the MiniC compiler's translation core: the NFA/DFA kernel,   *)
(* the lexer generator, the tokenizer and the LALR driver.                 *)
(*                                                                         *)
(* Conventions.  JavaScript arrays are sequences; indices stored in the    *)
(* program's data (symbol indices, state indices, positions) keep their    *)
(* 0-based values and are read with At.  A MachineState object is the      *)
(* number of the allocation that created it, so identity is equality.      *)
(* Characters are one-character strings; a text is a sequence of them.     *)
(***************************************************************************)
EXTENDS Integers, Sequences, FiniteSets, TLC

(***************************************************************************)
(* Bounds of the model.                                                    *)
(***************************************************************************)
\* operators in one enumerated postfix regex
MaxOps == 2
\* rules in one lexer definition built from the rule catalogue
MaxRules == 2
\* symbols fed to the automata when their languages are compared
MaxInput == 2
\* characters of a source text given to the tokenizer
MaxSource == 3
\* tokens of a token list given to the parser, before its end marker
MaxTokens == 3
\* the cap on the driver's loops.  SyntaxAnalyzer.ts line 288 sets 10000; the
\* model scales it down so that the token lists of the model reach it.
MAX_ITERATIONS == 4
\* declarations in one list of a program built from the declaration catalogue
MaxDeclarations == 2
\* statements in the body of main built from the statement catalogue
MaxStatements == 2
\* the most assignments that fill the registers of a function
MaxFillers == 10
\* the most locals of a function
MaxLocals == 11
\* compilations in one process
MaxCompilations == 2
\* lines of a list of assembly lines given to the peephole pass
MaxLines == 4
\* calls of the peephole pass on one list
MaxPasses == 2

VARIABLES
  \* ---- automata kernel and lexer generator ----
  rules,          \* the lexer rules: a sequence of [parts, action]
  autoPc,         \* position in the generator pipeline
  stateCounter,   \* MachineState objects allocated so far
  nfa,            \* the combined NFA (unionAll of the rules' NFAs)
  dfa,            \* DeterministicAutomaton.fromNFA(nfa)
  nfaStateSets,   \* fromNFA's list of NFA state sets, one per DFA state
  file,           \* the JSON written by serialize
  legacyFile,     \* the same automaton in the original project's schema
  loaded,         \* deserialize(file)
  loadedLegacy,   \* deserialize(legacyFile)
  fed,            \* the symbol indices fed so far
  nfaCur,         \* NFA simulation: the current state set
  dfaCur,         \* DFA run: the current state, or NullState
  loadedCur,      \* the same run on loaded
  legacyCur,      \* the same run on loadedLegacy
  \* ---- tokenizeSourceCode ----
  sourceCode,                \* the source text, after the line-ending normalisation
  hasCollector,              \* whether an errorCollector was passed
  lexPc,                     \* "idle", "run", "end" (the loop has returned 0), "done", "thrown"
  currentLineNumber,
  currentLineStartPosition,
  currentCharacter,
  currentStateIndex,
  currentPosition,
  tokens,
  collectedErrors,           \* ErrorCollector._errors
  thrownError,               \* the CompilerError thrown, if any (at most one)
  lexCall,                   \* the last performTokenization call: where it started and how it ended
  \* ---- parseTokenSequence ----
  parserTokens,        \* the parameter tokens (reassigned by the preprocessing)
  analyzer,            \* the ILALRAnalyzer: symbols, producers, ACTIONTable, GOTOTable, startStateId
  errorCollector,      \* whether an errorCollector was passed
  syntaxErrors,        \* the errors added to the collector
  parseThrown,         \* the error thrown, if any (at most one)
  parsePc,             \* "idle", "start", "outer", "inner", "retry", "exit", "returned", "thrown"
  lineNumber,
  symbolStack,
  stateStack,
  currentTokenIndex,
  token,               \* a symbol index, or Undefined
  iterationCount,
  driverResult,        \* the driver's local result
  innerIterationCount,
  astRoot,             \* the value returned: a syntax node, or Null
  driverLog,           \* the call's token list and what processSymbol did so far: the
                       \* tokens shifted, the stack height at acc, the missing actions
  callerCap,           \* the cap the caller would like; parseTokenSequence has no
                       \* parameter for it (lines 33-37)
  \* ---- IntermediateCodeGenerator ----
  GLOBAL_SCOPE_PATH,   \* the module-level array of part_007 line 31
  program,             \* the syntax tree given to the constructor
  generator,           \* the generator object the constructor has built
  irPc,                \* "idle", "constructed", "thrown"
  compilations,        \* constructor calls so far in this process
  \* ---- AssemblyCodeGenerator ----
  assembler,           \* the code generator object the constructor has built
  cgPc,                \* "idle", "generated", "thrown"; in processTextSegment "switch",
                       \* "blockEnd" and, when it has returned, "emitted"
  cgBlockIndex,        \* processTextSegment's blockIndex
  cgIrIndex,           \* processTextSegment's irIndex
  \* ---- AssemblyCodeGenerator.peepholeOptimize ----
  asmLines,            \* this._asm of the generator the pass is called on
  passes,              \* calls of peepholeOptimize so far
  \* ---- main.ts ----
  drvPc,               \* the statement of main.ts the process is at
  exitCode,            \* the exit code of the process
  asmCode,             \* the text given to writeFileSync for the .asm file
  outputFiles          \* the names of the files written, in order

autoVars == <<rules, autoPc, stateCounter, nfa, dfa, nfaStateSets, file, legacyFile, loaded,
              loadedLegacy, fed, nfaCur, dfaCur, loadedCur, legacyCur>>

lexVars == <<sourceCode, hasCollector, lexPc, currentLineNumber, currentLineStartPosition,
             currentCharacter, currentStateIndex, currentPosition, tokens, collectedErrors,
             thrownError, lexCall>>

irVars == <<GLOBAL_SCOPE_PATH, program, generator, irPc, compilations>>

parseVars == <<parserTokens, analyzer, errorCollector, syntaxErrors, parseThrown, parsePc,
               lineNumber, symbolStack, stateStack, currentTokenIndex, token, iterationCount,
               driverResult, innerIterationCount, astRoot, driverLog, callerCap>>

cgVars == <<assembler, cgPc, cgBlockIndex, cgIrIndex>>

peepVars == <<asmLines, passes>>

drvVars == <<drvPc, exitCode, asmCode, outputFiles>>

backVars == <<irVars, cgVars, peepVars, drvVars>>

vars == <<autoVars, lexVars, parseVars, backVars>>

(***************************************************************************)
(* JavaScript array helpers.                                               *)
(***************************************************************************)
At(s, i) == s[i + 1]

\* JavaScript's undefined and null, kept as records so that they compare with
\* the objects a variable may hold instead
Undefined == [nodeType |-> "undefined"]

Null == [nodeType |-> "null"]

Includes(s, x) == \E k \in 1..Len(s) : s[k] = x

IndexOf(s, x) ==
  IF Includes(s, x) THEN (CHOOSE k \in 1..Len(s) : s[k] = x /\ \A j \in 1..(k - 1) : s[j] # x) - 1
  ELSE -1

\* [...new Set(s)]: first occurrences, in order
Dedup(s) ==
  LET RECURSIVE go(_, _)
      go(acc, k) == IF k > Len(s) THEN acc
                    ELSE go(IF Includes(acc, s[k]) THEN acc ELSE Append(acc, s[k]), k + 1)
  IN go(<<>>, 1)

\* Map.get / Map.has / Map.set on a Map kept as its entries in insertion order
MapHas(m, k) == \E e \in 1..Len(m) : m[e].key = k

MapGet(m, k) == m[CHOOSE e \in 1..Len(m) : m[e].key = k].value

MapSet(m, k, v) ==
  IF MapHas(m, k) THEN [e \in 1..Len(m) |-> IF m[e].key = k THEN [key |-> k, value |-> v] ELSE m[e]]
  ELSE Append(m, [key |-> k, value |-> v])

(***************************************************************************)
(* StateMachine.ts                                                         *)
(***************************************************************************)
EPSILON == -1
ANY_CHAR == -2
OTHER_CHAR == -3

\* what getNextState returns when no transition applies
NullState == -1

Trans(sym, tgt) == [inputSymbol |-> sym, targetStateIndex |-> tgt]

NewAutomaton ==
  [symbolSet |-> <<>>, stateList |-> <<>>, initialStates |-> <<>>, acceptingStates |-> <<>>,
   transitionTable |-> <<>>, acceptingStateActions |-> <<>>]

getTransitionsFromState(m, state) == At(m.transitionTable, IndexOf(m.stateList, state))

(***************************************************************************)
(* NondeterministicAutomaton.ts                                            *)
(***************************************************************************)
getSpecialSymbolString(symbol) ==
  CASE symbol = EPSILON -> "[eps]"
    [] symbol = ANY_CHAR -> "[any]"
    [] symbol = OTHER_CHAR -> "[other]"
    [] OTHER -> ""

\* createAtom for a character; n is the number of states allocated before
createAtom(symbol, n) ==
  [NewAutomaton EXCEPT !.initialStates = <<n>>, !.acceptingStates = <<n + 1>>,
                       !.stateList = <<n, n + 1>>, !.symbolSet = <<symbol>>,
                       !.transitionTable = << <<Trans(0, 1)>>, <<>> >>]

\* createAtom for a special symbol (the typeof symbol !== 'string' branch)
createSpecialAtom(symbol, n) ==
  [NewAutomaton EXCEPT !.initialStates = <<n>>, !.acceptingStates = <<n + 1>>,
                       !.stateList = <<n, n + 1>>, !.symbolSet = <<getSpecialSymbolString(symbol)>>,
                       !.transitionTable = << <<Trans(symbol, 1)>>, <<>> >>]

computeEpsilonClosure(m, states) ==
  LET RECURSIVE go(_, _)
      go(result, i) ==
        IF i > Len(result) THEN result
        ELSE LET tr == getTransitionsFromState(m, result[i])
                 eps == SelectSeq(tr, LAMBDA t : t.inputSymbol = EPSILON)
                 reach == [j \in 1..Len(eps) |-> At(m.stateList, eps[j].targetStateIndex)]
                 \* filter against result before the push: duplicates inside reach stay
                 new == SelectSeq(reach, LAMBDA s : ~Includes(result, s))
             IN go(result \o new, i + 1)
  IN go(states, 1)

computeStateMove(m, states, symbolIndex) ==
  LET matches(t) == \/ t.inputSymbol = symbolIndex
                    \/ /\ t.inputSymbol = ANY_CHAR
                       /\ ~(symbolIndex >= 0 /\ symbolIndex < Len(m.symbolSet)
                            /\ At(m.symbolSet, symbolIndex) = "\n")
      RECURSIVE row(_, _, _)
      row(result, tr, j) ==
        IF j > Len(tr) THEN result
        ELSE LET target == At(m.stateList, tr[j].targetStateIndex)
             IN row(IF matches(tr[j]) /\ ~Includes(result, target) THEN Append(result, target)
                    ELSE result, tr, j + 1)
      RECURSIVE go(_, _)
      go(result, k) ==
        IF k > Len(states) THEN result
        ELSE go(row(result, getTransitionsFromState(m, states[k]), 1), k + 1)
  IN go(<<>>, 1)

addTransitions(m, sourceStates, targetStates, symbolIndex) ==
  LET edges == [j \in 1..Len(targetStates) |->
                  Trans(symbolIndex, IndexOf(m.stateList, targetStates[j]))]
      RECURSIVE go(_, _)
      go(table, k) ==
        IF k > Len(sourceStates) THEN table
        ELSE go([table EXCEPT ![IndexOf(m.stateList, sourceStates[k]) + 1] = @ \o edges], k + 1)
  IN [m EXCEPT !.transitionTable = go(m.transitionTable, 1)]

addEpsilonTransitions(m, sourceStates, targetStates) ==
  addTransitions(m, sourceStates, targetStates, EPSILON)

\* two fresh states, numbered n and n + 1
applyKleeneClosure(m, n) ==
  LET m1 == [m EXCEPT !.initialStates = <<n>>, !.acceptingStates = <<n + 1>>,
                      !.stateList = m.stateList \o <<n, n + 1>>,
                      !.transitionTable = m.transitionTable \o << <<>>, <<>> >>]
      m2 == addEpsilonTransitions(m1, m1.initialStates, m.initialStates)
      m3 == addEpsilonTransitions(m2, m.acceptingStates, m1.acceptingStates)
      m4 == addEpsilonTransitions(m3, m1.initialStates, m1.acceptingStates)
  IN addEpsilonTransitions(m4, m.acceptingStates, m.initialStates)

\* a copy on Len(m.stateList) fresh states, numbered from n
clone(m, n) ==
  LET fresh == [i \in 1..Len(m.stateList) |-> n + i - 1]
      isInit(i) == Includes(m.initialStates, m.stateList[i])
      isAcc(i) == ~isInit(i) /\ Includes(m.acceptingStates, m.stateList[i])
      pick(p(_)) ==
        LET RECURSIVE go(_, _)
            go(acc, i) == IF i > Len(fresh) THEN acc
                          ELSE go(IF p(i) THEN Append(acc, fresh[i]) ELSE acc, i + 1)
        IN go(<<>>, 1)
  IN [symbolSet |-> m.symbolSet, stateList |-> fresh, initialStates |-> pick(isInit),
      acceptingStates |-> pick(isAcc), transitionTable |-> m.transitionTable,
      acceptingStateActions |-> m.acceptingStateActions]

\* appends from's rows, re-indexed for to's alphabet and state list
mergeTransitionTable(from, to) ==
  LET remap(t) ==
        Trans(IF t.inputSymbol < 0 THEN t.inputSymbol
              ELSE IndexOf(to.symbolSet, At(from.symbolSet, t.inputSymbol)),
              IndexOf(to.stateList, At(from.stateList, t.targetStateIndex)))
  IN [to EXCEPT !.transitionTable =
        @ \o [i \in 1..Len(from.transitionTable) |->
                [j \in 1..Len(from.transitionTable[i]) |-> remap(from.transitionTable[i][j])]]]

concatenate(nfa1, nfa2) ==
  LET r0 == [NewAutomaton EXCEPT !.initialStates = nfa1.initialStates,
                                 !.acceptingStates = nfa2.acceptingStates,
                                 !.stateList = nfa1.stateList \o nfa2.stateList,
                                 !.symbolSet = Dedup(nfa1.symbolSet \o nfa2.symbolSet)]
      r2 == mergeTransitionTable(nfa2, mergeTransitionTable(nfa1, r0))
  IN addEpsilonTransitions(r2, nfa1.acceptingStates, nfa2.initialStates)

\* the new start state is n, the new accepting state n + 1
union(nfa1, nfa2, n) ==
  LET r0 == [NewAutomaton EXCEPT !.initialStates = <<n>>, !.acceptingStates = <<n + 1>>,
                                 !.symbolSet = Dedup(nfa1.symbolSet \o nfa2.symbolSet),
                                 !.stateList = <<n>> \o nfa1.stateList \o nfa2.stateList \o <<n + 1>>,
                                 !.transitionTable = << <<>> >>]
      r2 == mergeTransitionTable(nfa2, mergeTransitionTable(nfa1, r0))
      r3 == [r2 EXCEPT !.transitionTable = Append(@, <<>>)]
      r4 == addEpsilonTransitions(r3, r0.initialStates, nfa1.initialStates)
      r5 == addEpsilonTransitions(r4, r0.initialStates, nfa2.initialStates)
      r6 == addEpsilonTransitions(r5, nfa1.acceptingStates, r0.acceptingStates)
  IN addEpsilonTransitions(r6, nfa2.acceptingStates, r0.acceptingStates)

\* the new start state is n
unionAll(nfas, n) ==
  LET RECURSIVE gather(_, _, _)
      gather(r, syms, k) ==
        IF k > Len(nfas) THEN [r EXCEPT !.symbolSet = Dedup(syms), !.transitionTable = << <<>> >>]
        ELSE LET x == nfas[k]
                 RECURSIVE acts(_, _)
                 acts(m, j) ==
                   IF j > Len(x.acceptingStates) THEN m
                   ELSE acts(IF MapHas(x.acceptingStateActions, x.acceptingStates[j])
                             THEN MapSet(m, x.acceptingStates[j],
                                         MapGet(x.acceptingStateActions, x.acceptingStates[j]))
                             ELSE m, j + 1)
             IN gather([r EXCEPT !.acceptingStates = @ \o x.acceptingStates,
                                 !.stateList = @ \o x.stateList,
                                 !.acceptingStateActions = acts(@, 1)],
                       syms \o x.symbolSet, k + 1)
      RECURSIVE merge(_, _)
      merge(r, k) == IF k > Len(nfas) THEN r ELSE merge(mergeTransitionTable(nfas[k], r), k + 1)
      RECURSIVE link(_, _)
      link(r, k) == IF k > Len(nfas) THEN r
                    ELSE link(addEpsilonTransitions(r, r.initialStates, nfas[k].initialStates), k + 1)
      r0 == [NewAutomaton EXCEPT !.initialStates = <<n>>, !.stateList = <<n>>]
  IN link(merge(gather(r0, <<>>, 1), 1), 1)

\* ESCAPE_TO_CHAR['\\' + part] || part
EscapedChar(part) ==
  CASE part = "n" -> "\n"
    [] part = "t" -> "\t"
    [] part = "r" -> "\r"
    [] OTHER -> part

\* buildFromRegex: parts is regex.postFix split at white space; the states are
\* numbered from n.  The result is [nfa, next]: next counts the states allocated.
buildFromRegex(parts, action, n) ==
  LET Top(st) == st[Len(st)]
      Pop(st) == SubSeq(st, 1, Len(st) - 1)
      step(b, part) ==
        IF b.waiting
        THEN [stack |-> Append(b.stack, createAtom(EscapedChar(part), b.next)),
              next |-> b.next + 2, waiting |-> FALSE]
        ELSE CASE part = "|" ->
                    [b EXCEPT !.stack = Append(Pop(Pop(b.stack)),
                                               union(Top(Pop(b.stack)), Top(b.stack), b.next)),
                              !.next = @ + 2]
               [] part = "[dot]" ->
                    [b EXCEPT !.stack = Append(Pop(Pop(b.stack)),
                                               concatenate(Top(Pop(b.stack)), Top(b.stack)))]
               [] part = "*" ->
                    [b EXCEPT !.stack = Append(Pop(b.stack), applyKleeneClosure(Top(b.stack), b.next)),
                              !.next = @ + 2]
               [] part = "+" ->
                    LET operand == Top(b.stack)
                        copy == clone(operand, b.next)
                        starred == applyKleeneClosure(copy, b.next + Len(operand.stateList))
                    IN [b EXCEPT !.stack = Append(Pop(b.stack), concatenate(operand, starred)),
                                 !.next = @ + Len(operand.stateList) + 2]
               [] part = "?" ->
                    LET operand == Top(b.stack)
                    IN [b EXCEPT !.stack = Append(Pop(b.stack),
                          addEpsilonTransitions(operand, operand.initialStates, operand.acceptingStates))]
               [] part = "\\" -> [b EXCEPT !.waiting = TRUE]
               [] part = "." ->
                    [b EXCEPT !.stack = Append(b.stack, createSpecialAtom(ANY_CHAR, b.next)),
                              !.next = @ + 2]
               [] part = "[ws]" ->
                    [b EXCEPT !.stack = Append(b.stack, createAtom(" ", b.next)), !.next = @ + 2]
               [] OTHER ->
                    [b EXCEPT !.stack = Append(b.stack, createAtom(part, b.next)), !.next = @ + 2]
      RECURSIVE run(_, _)
      run(b, k) == IF k > Len(parts) THEN b ELSE run(step(b, parts[k]), k + 1)
      RECURSIVE setActions(_, _, _)
      setActions(result, m, j) ==
        IF j > Len(result.acceptingStates) THEN m
        ELSE setActions(result, MapSet(m, result.acceptingStates[j], action), j + 1)
      \* the stack holds exactly one automaton at the end
      finish(done) ==
        [nfa |-> [done.stack[1] EXCEPT !.acceptingStateActions = setActions(done.stack[1], @, 1)],
         next |-> done.next]
  IN finish(run([stack |-> <<>>, next |-> n, waiting |-> FALSE], 1))

\* AutomatonBuilder.buildFromLexParser up to unionAll: one NFA per rule, in rule
\* order, then the union under a new start state
buildFromLexParser(rs, n) ==
  LET push(built, b) == [nfas |-> Append(built.nfas, b.nfa), next |-> b.next]
      RECURSIVE each(_, _)
      each(built, k) ==
        IF k > Len(rs) THEN built
        ELSE each(push(built, buildFromRegex(rs[k].parts, rs[k].action, built.next)), k + 1)
      combine(built) == [nfa |-> unionAll(built.nfas, built.next), next |-> built.next + 1]
  IN combine(each([nfas |-> <<>>, next |-> n], 1))

(***************************************************************************)
(* DeterministicAutomaton.ts                                               *)
(***************************************************************************)
\* the transition test shared by computeStateMove and getNextState
getNextState(d, state, symbolIndex) ==
  LET tr == getTransitionsFromState(d, state)
      matches(t) == \/ t.inputSymbol = symbolIndex
                    \/ /\ t.inputSymbol = ANY_CHAR
                       /\ ~(symbolIndex >= 0 /\ symbolIndex < Len(d.symbolSet)
                            /\ At(d.symbolSet, symbolIndex) = "\n")
      RECURSIVE go(_, _)
      go(fallbackTarget, k) ==
        IF k > Len(tr)
        THEN IF fallbackTarget # -1 THEN At(d.stateList, fallbackTarget) ELSE NullState
        ELSE IF matches(tr[k]) THEN At(d.stateList, tr[k].targetStateIndex)
        ELSE IF tr[k].inputSymbol = OTHER_CHAR THEN go(tr[k].targetStateIndex, k + 1)
        ELSE go(fallbackTarget, k + 1)
  IN go(-1, 1)

\* markAccepting with the order comparison reversed
markAccepting_reversedOrder(d, m, nfaStateSet, dfaState) ==
  LET RECURSIVE go(_, _)
      go(x, k) ==
        IF k > Len(nfaStateSet) THEN x
        ELSE IF /\ Includes(m.acceptingStates, nfaStateSet[k])
                /\ MapHas(m.acceptingStateActions, nfaStateSet[k])
             THEN LET action == MapGet(m.acceptingStateActions, nfaStateSet[k])
                  IN IF MapHas(x.acceptingStateActions, dfaState)
                     THEN IF MapGet(x.acceptingStateActions, dfaState).order < action.order
                          THEN go([x EXCEPT !.acceptingStateActions = MapSet(@, dfaState, action)], k + 1)
                          ELSE go(x, k + 1)
                     ELSE go([x EXCEPT !.acceptingStates = Append(@, dfaState),
                                       !.acceptingStateActions = MapSet(@, dfaState, action)], k + 1)
             ELSE go(x, k + 1)
  IN go(d, 1)

\* the accepting-state block of fromNFA (lines 108-125 and 166-181): the action of
\* the lowest order among the accepting NFA states of the set
markAccepting(d, m, nfaStateSet, dfaState) ==
  LET RECURSIVE go(_, _)
      go(x, k) ==
        IF k > Len(nfaStateSet) THEN x
        ELSE IF /\ Includes(m.acceptingStates, nfaStateSet[k])
                /\ MapHas(m.acceptingStateActions, nfaStateSet[k])
             THEN LET action == MapGet(m.acceptingStateActions, nfaStateSet[k])
                  IN IF MapHas(x.acceptingStateActions, dfaState)
                     THEN IF MapGet(x.acceptingStateActions, dfaState).order > action.order
                          THEN go([x EXCEPT !.acceptingStateActions = MapSet(@, dfaState, action)], k + 1)
                          ELSE go(x, k + 1)
                     ELSE go([x EXCEPT !.acceptingStates = Append(@, dfaState),
                                       !.acceptingStateActions = MapSet(@, dfaState, action)], k + 1)
             ELSE go(x, k + 1)
  IN go(d, 1)

\* the set comparison of fromNFA, lines 146-150
sameStateSet(a, b) ==
  /\ Len(a) = Len(b)
  /\ \A k \in 1..Len(a) : Includes(b, a[k])
  /\ \A k \in 1..Len(b) : Includes(a, b[k])

\* lines 197-218: the any-char target becomes an ANY_CHAR edge when the row has
\* no other edge left, an OTHER_CHAR edge otherwise
anyCharEdge(row, anyCharTargetStateIndex) ==
  IF anyCharTargetStateIndex = -1 THEN row
  ELSE LET kept == SelectSeq(row, LAMBDA t : t.targetStateIndex # anyCharTargetStateIndex)
       IN IF Len(kept) = 0 THEN <<Trans(ANY_CHAR, anyCharTargetStateIndex)>>
          ELSE Append(kept, Trans(OTHER_CHAR, anyCharTargetStateIndex))

\* subset construction; the DFA states are numbered from n.  The result is
\* [dfa, next, sets], sets being the local nfaStateSets.
fromNFA(m, n) ==
  IF Len(m.initialStates) = 0 THEN [dfa |-> NewAutomaton, next |-> n, sets |-> <<>>]
  ELSE
    LET firstSet == computeEpsilonClosure(m, m.initialStates)
        d0 == markAccepting([NewAutomaton EXCEPT !.symbolSet = m.symbolSet, !.initialStates = <<n>>,
                                                 !.stateList = <<n>>, !.transitionTable = << <<>> >>],
                            m, firstSet, n)
        find(sets, s) ==
          IF \E j \in 1..Len(sets) : sameStateSet(sets[j], s)
          THEN (CHOOSE j \in 1..Len(sets) :
                  sameStateSet(sets[j], s) /\ \A h \in 1..(j - 1) : ~sameStateSet(sets[h], s)) - 1
          ELSE -1
        \* c = [dfa, sets, next, any]; i is the 0-based DFA state index
        symbolStep(c, i, symbolIndex) ==
          LET reachable == computeStateMove(m, At(c.sets, i), symbolIndex)
          IN IF Len(reachable) = 0 THEN c
             ELSE LET newSet == computeEpsilonClosure(m, reachable)
                      found == find(c.sets, newSet)
                      c1 == IF found # -1 THEN c
                            ELSE [c EXCEPT !.sets = Append(@, newSet), !.next = @ + 1,
                                    !.dfa = markAccepting(
                                      [c.dfa EXCEPT !.stateList = Append(@, c.next),
                                                    !.transitionTable = Append(@, <<>>)],
                                      m, newSet, c.next)]
                      existingIndex == IF found # -1 THEN found ELSE Len(c.sets)
                  IN IF At(c.dfa.symbolSet, symbolIndex) = "[any]"
                     THEN [c1 EXCEPT !.any = existingIndex]
                     ELSE [c1 EXCEPT !.dfa.transitionTable[i + 1] =
                                        Append(@, Trans(symbolIndex, existingIndex))]
        RECURSIVE symbolLoop(_, _, _)
        symbolLoop(c, i, symbolIndex) ==
          IF symbolIndex >= Len(c.dfa.symbolSet) THEN c
          ELSE symbolLoop(symbolStep(c, i, symbolIndex), i, symbolIndex + 1)
        RECURSIVE stateLoop(_, _)
        stateLoop(c, i) ==
          IF i >= Len(c.dfa.stateList) THEN c
          ELSE LET c1 == symbolLoop([c EXCEPT !.any = -1], i, 0)
               IN stateLoop([c1 EXCEPT !.dfa.transitionTable[i + 1] = anyCharEdge(@, c1.any)], i + 1)
        result(done) == [dfa |-> done.dfa, next |-> done.next, sets |-> done.sets]
    IN result(stateLoop([dfa |-> d0, sets |-> <<firstSet>>, next |-> n + 1, any |-> -1], 0))

\* the object serialize hands to JSON.stringify
serialize(d, description) ==
  [description |-> description,
   symbolSet |-> d.symbolSet,
   stateCount |-> Len(d.stateList),
   initialStateIndices |-> [k \in 1..Len(d.initialStates) |-> IndexOf(d.stateList, d.initialStates[k])],
   acceptingStateIndices |-> [k \in 1..Len(d.acceptingStates) |-> IndexOf(d.stateList, d.acceptingStates[k])],
   transitionTable |-> d.transitionTable,
   acceptingStateActions |->
     [k \in 1..Len(d.acceptingStateActions) |->
        [stateIndex |-> IndexOf(d.stateList, d.acceptingStateActions[k].key),
         action |-> d.acceptingStateActions[k].value]]]

\* a || b || [] on the fields of the parsed JSON: a present array is truthy
FieldOr(data, f, g, default) ==
  IF f \in DOMAIN data THEN data[f] ELSE IF g \in DOMAIN data THEN data[g] ELSE default

\* restoreTransitionRow with the two legacy fields exchanged
restoreTransitionRow_swapped(stateTransitions) ==
  IF Len(stateTransitions) = 0 THEN <<>>
  ELSE IF "alpha" \in DOMAIN stateTransitions[1] /\ "target" \in DOMAIN stateTransitions[1]
       THEN [j \in 1..Len(stateTransitions) |->
               Trans(stateTransitions[j].target, stateTransitions[j].alpha)]
       ELSE stateTransitions

\* lines 285-298: a row in the legacy {alpha, target} format is converted
restoreTransitionRow(stateTransitions) ==
  IF Len(stateTransitions) = 0 THEN <<>>
  ELSE IF "alpha" \in DOMAIN stateTransitions[1] /\ "target" \in DOMAIN stateTransitions[1]
       THEN [j \in 1..Len(stateTransitions) |->
               Trans(stateTransitions[j].alpha, stateTransitions[j].target)]
       ELSE stateTransitions

\* restoreActions testing the index for truthiness: the item of state 0 is lost
restoreActions_truthyIndex(actionItems, stateList) ==
  LET itemIndex(item) == IF "stateIndex" \in DOMAIN item THEN item.stateIndex ELSE item.accpetStateIndex
      RECURSIVE go(_, _)
      go(map, k) ==
        IF k > Len(actionItems) THEN map
        ELSE go(IF /\ \/ "stateIndex" \in DOMAIN actionItems[k]
                      \/ "accpetStateIndex" \in DOMAIN actionItems[k]
                   /\ itemIndex(actionItems[k]) # 0
                THEN MapSet(map, At(stateList, itemIndex(actionItems[k])), actionItems[k].action)
                ELSE map, k + 1)
  IN go(<<>>, 1)

\* lines 301-308: the accept actions, keyed by stateIndex or, in the legacy
\* format, accpetStateIndex; an item with neither is skipped
restoreActions(actionItems, stateList) ==
  LET itemIndex(item) == IF "stateIndex" \in DOMAIN item THEN item.stateIndex ELSE item.accpetStateIndex
      RECURSIVE go(_, _)
      go(map, k) ==
        IF k > Len(actionItems) THEN map
        ELSE go(IF \/ "stateIndex" \in DOMAIN actionItems[k]
                   \/ "accpetStateIndex" \in DOMAIN actionItems[k]
                THEN MapSet(map, At(stateList, itemIndex(actionItems[k])), actionItems[k].action)
                ELSE map, k + 1)
  IN go(<<>>, 1)

\* deserialize of the parsed JSON data; the states are numbered from n
deserialize(data, n) ==
  LET stateCount == IF "stateCount" \in DOMAIN data THEN data.stateCount ELSE 0
      stateList == [i \in 1..stateCount |-> n + i - 1]
      initialStateIndices == FieldOr(data, "initialStateIndices", "startStatesIndex", <<>>)
      acceptingStateIndices == FieldOr(data, "acceptingStateIndices", "acceptStatesIndex", <<>>)
      rawTransitionTable == FieldOr(data, "transitionTable", "transformAdjList", <<>>)
  IN [symbolSet |-> FieldOr(data, "symbolSet", "alphabet", <<>>),
      stateList |-> stateList,
      initialStates |-> [k \in 1..Len(initialStateIndices) |-> At(stateList, initialStateIndices[k])],
      acceptingStates |-> [k \in 1..Len(acceptingStateIndices) |-> At(stateList, acceptingStateIndices[k])],
      transitionTable |-> [i \in 1..Len(rawTransitionTable) |-> restoreTransitionRow(rawTransitionTable[i])],
      acceptingStateActions |->
        restoreActions(FieldOr(data, "acceptingStateActions", "acceptActionMap", <<>>), stateList)]

\* The file the original project's generator wrote for the same automaton: the
\* field names of the legacy schema, {alpha, target} edges and accpetStateIndex.
legacySerialize(d, description) ==
  [desc |-> description,
   alphabet |-> d.symbolSet,
   stateCount |-> Len(d.stateList),
   startStatesIndex |-> [k \in 1..Len(d.initialStates) |-> IndexOf(d.stateList, d.initialStates[k])],
   acceptStatesIndex |-> [k \in 1..Len(d.acceptingStates) |-> IndexOf(d.stateList, d.acceptingStates[k])],
   transformAdjList |->
     [i \in 1..Len(d.transitionTable) |->
        [j \in 1..Len(d.transitionTable[i]) |->
           [alpha |-> d.transitionTable[i][j].inputSymbol,
            target |-> d.transitionTable[i][j].targetStateIndex]]],
   acceptActionMap |->
     [k \in 1..Len(d.acceptingStateActions) |->
        [accpetStateIndex |-> IndexOf(d.stateList, d.acceptingStateActions[k].key),
         action |-> d.acceptingStateActions[k].value]]]

(***************************************************************************)
(* LexFileParser.ts: the rules of a .l file.  A rule definition is the      *)
(* postfix form of its regex (the parts buildFromRegex reads) and the      *)
(* action code, as lexical pieces.                                         *)
(***************************************************************************)
\* _parseRules, lines 203-208: the rules take their order in file order
parseRules(definitions) ==
  [k \in 1..Len(definitions) |->
     [parts |-> definitions[k].parts,
      action |-> [order |-> k - 1, code |-> definitions[k].code]]]

\* the postfix regexes with n operators over the atoms
Atoms == { <<"a">>, <<".">>, <<"\\", "n">> }

RECURSIVE Postfix(_)
Postfix(n) ==
  IF n = 0 THEN Atoms
  ELSE { r \o <<op>> : r \in Postfix(n - 1), op \in {"*", "+", "?"} }
       \cup UNION { { l \o r \o <<op>> : l \in Postfix(k), r \in Postfix(n - 1 - k), op \in {"|", "[dot]"} }
                    : k \in 0..(n - 1) }

Regexes == UNION { Postfix(n) : n \in 0..MaxOps }

ReturnCode(name) == <<"return", " ", name, ";">>

\* rules whose languages overlap, for lexer definitions of several rules
RuleCatalogue ==
  { [parts |-> <<"a">>, code |-> ReturnCode("A")],
    [parts |-> <<"a", "a", "*", "[dot]">>, code |-> ReturnCode("AS")],
    [parts |-> <<".">>, code |-> ReturnCode("DOT")],
    [parts |-> <<"\\", "n">>, code |-> ReturnCode("NL")],
    [parts |-> <<"a", ".", "*", "[dot]">>, code |-> ReturnCode("ATAIL")] }

RECURSIVE CatalogueLists(_)
CatalogueLists(n) ==
  IF n = 0 THEN { <<>> }
  ELSE { Append(l, r) : l \in CatalogueLists(n - 1), r \in RuleCatalogue }

\* _parseRules rejects a regex that is already a rule (lines 164-167)
DistinctRegexes(l) == \A i, j \in 1..Len(l) : i # j => l[i].parts # l[j].parts

RuleDefinitions ==
  { <<[parts |-> r, code |-> ReturnCode("T")]>> : r \in Regexes }
  \cup { l \in UNION { CatalogueLists(n) : n \in 2..MaxRules } : DistinctRegexes(l) }

(***************************************************************************)
(* The generator pipeline and the comparison of the automata it produces.  *)
(***************************************************************************)
NoCall == [kind |-> "none", start |-> 0, failedAt |-> 0, dfaFailed |-> FALSE, errorsBefore |-> 0]

\* the tokenizer's variables before tokenizeSourceCode is called on src
LexIdle(src) ==
  /\ sourceCode = src
  /\ hasCollector = FALSE
  /\ lexPc = "idle"
  /\ currentLineNumber = 1
  /\ currentLineStartPosition = 0
  /\ currentCharacter = ""
  /\ currentStateIndex = 0
  /\ currentPosition = 0
  /\ tokens = <<>>
  /\ collectedErrors = <<>>
  /\ thrownError = <<>>
  /\ lexCall = NoCall

\* the parser's variables when parseTokenSequence(toks, a, collector) is at pc
\* before its first statement ("idle": not called in this run)
ParseIdle(toks, a, collector, pc, cap) ==
  /\ callerCap = cap
  /\ parserTokens = toks
  /\ analyzer = a
  /\ errorCollector = collector
  /\ syntaxErrors = <<>>
  /\ parseThrown = <<>>
  /\ parsePc = pc
  /\ lineNumber = 1
  /\ symbolStack = <<>>
  /\ stateStack = <<>>
  /\ currentTokenIndex = 0
  /\ token = Undefined
  /\ iterationCount = 0
  /\ driverResult = Undefined
  /\ innerIterationCount = 0
  /\ astRoot = Undefined
  /\ driverLog = [input |-> toks, shifted |-> <<>>, acc |-> <<>>, noAction |-> <<>>]

\* the intermediate code generator's variables in a process that has
\* compiled nothing, the module-level array being path
IrIdle(path) ==
  /\ GLOBAL_SCOPE_PATH = path
  /\ program = Undefined
  /\ generator = Undefined
  /\ irPc = "idle"
  /\ compilations = 0

\* the code generator's variables when no code generator has been built
CgIdle ==
  /\ assembler = Undefined
  /\ cgPc = "idle"
  /\ cgBlockIndex = 0
  /\ cgIrIndex = 0

\* main.ts at statement pc, nothing written
DrvIdle(pc) ==
  /\ drvPc = pc
  /\ exitCode = 0
  /\ asmCode = <<>>
  /\ outputFiles = <<>>

\* the peephole pass's variables before a call, this._asm being lines
PeepIdle(lines) ==
  /\ asmLines = lines
  /\ passes = 0

\* the generator's variables when nothing has been built from the rules rs
AutoIdle(rs, pc, d) ==
  /\ rules = rs
  /\ autoPc = pc
  /\ stateCounter = 0
  /\ nfa = NewAutomaton
  /\ dfa = NewAutomaton
  /\ nfaStateSets = <<>>
  /\ file = [stateCount |-> 0]
  /\ legacyFile = [stateCount |-> 0]
  /\ loaded = d
  /\ loadedLegacy = NewAutomaton
  /\ fed = <<>>
  /\ nfaCur = <<>>
  /\ dfaCur = NullState
  /\ loadedCur = NullState
  /\ legacyCur = NullState

AutoInit ==
  /\ \E l \in RuleDefinitions : AutoIdle(parseRules(l), "build", NewAutomaton)
  /\ LexIdle(<<>>)
  /\ ParseIdle(<<>>, [symbols |-> <<>>], FALSE, "idle", MAX_ITERATIONS)
  /\ IrIdle(<<0>>)
  /\ CgIdle
  /\ DrvIdle("idle")
  /\ PeepIdle(<<>>)

\* AutomatonBuilder.buildFromLexParser, first half: the NFAs and their union
BuildNFA ==
  /\ autoPc = "build"
  /\ \E b \in {buildFromLexParser(rules, stateCounter)} :
       nfa' = b.nfa /\ stateCounter' = b.next
  /\ autoPc' = "fromNFA"
  /\ UNCHANGED <<rules, dfa, nfaStateSets, file, legacyFile, loaded, loadedLegacy, fed, nfaCur,
                 dfaCur, loadedCur, legacyCur>>
  /\ UNCHANGED <<lexVars, parseVars, backVars>>

\* AutomatonBuilder.buildFromLexParser, second half
BuildDFA ==
  /\ autoPc = "fromNFA"
  /\ \E b \in {fromNFA(nfa, stateCounter)} :
       dfa' = b.dfa /\ stateCounter' = b.next /\ nfaStateSets' = b.sets
  /\ autoPc' = "serialize"
  /\ UNCHANGED <<rules, nfa, file, legacyFile, loaded, loadedLegacy, fed, nfaCur, dfaCur,
                 loadedCur, legacyCur>>
  /\ UNCHANGED <<lexVars, parseVars, backVars>>

\* AutomatonBuilder.buildAndSerialize; the legacy file is the same automaton as
\* the original project's generator wrote it
Serialize ==
  /\ autoPc = "serialize"
  /\ file' = serialize(dfa, "lex")
  /\ legacyFile' = legacySerialize(dfa, "lex")
  /\ autoPc' = "deserialize"
  /\ UNCHANGED <<rules, stateCounter, nfa, dfa, nfaStateSets, loaded, loadedLegacy, fed, nfaCur,
                 dfaCur, loadedCur, legacyCur>>
  /\ UNCHANGED <<lexVars, parseVars, backVars>>

\* main.ts loads the lexer DFA; both files are loaded, and the runs start
Deserialize ==
  /\ autoPc = "deserialize"
  /\ loaded' = deserialize(file, stateCounter)
  /\ loadedLegacy' = deserialize(legacyFile, stateCounter + file.stateCount)
  /\ stateCounter' = stateCounter + file.stateCount + legacyFile.stateCount
  /\ nfaCur' = computeEpsilonClosure(nfa, nfa.initialStates)
  /\ dfaCur' = dfa.initialStates[1]
  /\ loadedCur' = loaded'.initialStates[1]
  /\ legacyCur' = loadedLegacy'.initialStates[1]
  /\ autoPc' = "run"
  /\ UNCHANGED <<rules, nfa, dfa, nfaStateSets, file, legacyFile, fed>>
  /\ UNCHANGED <<lexVars, parseVars, backVars>>

RunStep(d, cur, symbolIndex) ==
  IF cur = NullState THEN NullState ELSE getNextState(d, cur, symbolIndex)

\* one symbol of the alphabet is fed to the NFA simulation and to the DFA runs
Feed ==
  /\ autoPc = "run"
  /\ Len(fed) < MaxInput
  /\ \E symbolIndex \in 0..(Len(nfa.symbolSet) - 1) :
       /\ fed' = Append(fed, symbolIndex)
       /\ nfaCur' = computeEpsilonClosure(nfa, computeStateMove(nfa, nfaCur, symbolIndex))
       /\ dfaCur' = RunStep(dfa, dfaCur, symbolIndex)
       /\ loadedCur' = RunStep(loaded, loadedCur, symbolIndex)
       /\ legacyCur' = RunStep(loadedLegacy, legacyCur, symbolIndex)
  /\ UNCHANGED <<rules, autoPc, stateCounter, nfa, dfa, nfaStateSets, file, legacyFile, loaded,
                 loadedLegacy>>
  /\ UNCHANGED <<lexVars, parseVars, backVars>>

AutoNext == BuildNFA \/ BuildDFA \/ Serialize \/ Deserialize \/ Feed

\* acceptance of the fed input
NfaAccepts == \E k \in 1..Len(nfaCur) : Includes(nfa.acceptingStates, nfaCur[k])

DfaAccepts(d, cur) == cur # NullState /\ Includes(d.acceptingStates, cur)

\* the accept action a run ends on
DfaAction(d, cur) == MapGet(d.acceptingStateActions, cur)

(***************************************************************************)
(* Tokenizer.ts: tokenizeSourceCode                                        *)
(***************************************************************************)
\* a character outside ASCII, standing for any of them
NonAscii == "<U+4E2D>"

\* String.prototype.charCodeAt(0) on the strings of the model
CharCode(c) ==
  CASE c = "\n" -> 10
    [] c = "\t" -> 9
    [] c = "\r" -> 13
    [] c = " " -> 32
    [] c = "/" -> 47
    [] c = "[any]" -> 91
    [] c = "a" -> 97
    [] c = "b" -> 98
    [] c = NonAscii -> 20013

\* /^\s$/.test(c)
IsWhitespace(c) == c \in {" ", "\n", "\t", "\r"}

\* transitionMatrix[i][charCode], lines 47-77: the target of the last concrete
\* edge for the character, else the target of the last OTHER_CHAR or ANY_CHAR edge
transitionMatrix(d, i, charCode) ==
  LET row == At(d.transitionTable, i)
      RECURSIVE go(_, _, _)
      go(target, fallbackTarget, k) ==
        IF k > Len(row) THEN IF target # -1 THEN target ELSE fallbackTarget
        ELSE IF row[k].inputSymbol = OTHER_CHAR \/ row[k].inputSymbol = ANY_CHAR
             THEN go(target, row[k].targetStateIndex, k + 1)
        ELSE IF /\ row[k].inputSymbol >= 0
                /\ row[k].inputSymbol < Len(d.symbolSet)
                /\ CharCode(At(d.symbolSet, row[k].inputSymbol)) = charCode
             THEN go(row[k].targetStateIndex, fallbackTarget, k + 1)
        ELSE go(target, fallbackTarget, k + 1)
  IN go(-1, -1, 1)

\* acceptStateFlags[i], lines 81-87
acceptStateFlags(d, i) == Includes(d.acceptingStates, At(d.stateList, i))

\* extractTokenName on an action code given as its lexical pieces: white space,
\* the first return, the first semicolon and every parenthesis are removed.  The
\* action codes of the model leave one piece, the name.
extractTokenName(actionCode) ==
  LET noSpace == SelectSeq(actionCode, LAMBDA x : ~IsWhitespace(x))
      dropFirst(seq, x) ==
        IF Includes(seq, x)
        THEN SubSeq(seq, 1, IndexOf(seq, x)) \o SubSeq(seq, IndexOf(seq, x) + 2, Len(seq))
        ELSE seq
      rest == SelectSeq(dropFirst(dropFirst(noSpace, "return"), ";"), LAMBDA x : x \notin {"(", ")"})
  IN IF Len(rest) = 0 THEN "" ELSE rest[1]

\* currentBuffer.startsWith('//')
StartsWithSlashSlash(buffer) == Len(buffer) >= 2 /\ buffer[1] = "/" /\ buffer[2] = "/"

\* one pass of the transition loop, lines 147-189, on the loop's variables
scanStep(d, src, st) ==
  LET ch == At(src, st.pos)
      isNewline == ch = "\n"
      read == [st EXCEPT !.ch = ch, !.buffer = Append(@, ch), !.pos = @ + 1,
                         !.line = IF isNewline THEN @ + 1 ELSE @,
                         !.lineStart = IF isNewline THEN st.pos + 1 ELSE @,
                         !.rollback = IF isNewline THEN @ + 1 ELSE @]
      record(x) == IF x.state # -1 /\ acceptStateFlags(d, x.state)
                   THEN [x EXCEPT !.lastState = x.state, !.lastPos = x.pos - 1, !.rollback = 0]
                   ELSE x
      move(x) == IF CharCode(ch) < 128
                 THEN record([x EXCEPT !.state = transitionMatrix(d, x.state, CharCode(ch))])
                 ELSE IF StartsWithSlashSlash(x.buffer) THEN record(x)
                 ELSE [x EXCEPT !.state = -1]
  IN move(read)

\* the transition loop, lines 146-194
RECURSIVE scan(_, _, _)
scan(d, src, st) ==
  IF st.state # -1 /\ st.pos < Len(src) THEN scan(d, src, scanStep(d, src, st)) ELSE st

\* lines 220-228 and 234: the column of the token, found by scanning back for
\* the line break before its start
tokenColumn(src, tokenStartPos) ==
  LET breaks == { i \in 0..(tokenStartPos - 1) : At(src, i) = "\n" }
      tokenLineStart == IF breaks = {} THEN 0
                        ELSE (CHOOSE i \in breaks : \A j \in breaks : j <= i) + 1
      tokenPosition == tokenStartPos - tokenLineStart + 1
  IN IF tokenPosition > 0 THEN tokenPosition ELSE 1

\* lines 197-235: the token of a call that saw an accepting state
acceptedToken(d, src, st) ==
  LET rollbackLength == st.pos - st.lastPos - 1
      matchedText == SubSeq(st.buffer, 1, Len(st.buffer) - rollbackLength)
      action == MapGet(d.acceptingStateActions, At(d.stateList, st.lastState))
  IN [name |-> extractTokenName(action.code),
      literal |-> matchedText,
      lineNumber |-> st.line - st.rollback,
      position |-> tokenColumn(src, st.lastPos - Len(matchedText) + 1)]

\* lines 257-270 and 282-287: the error handed to the collector
lexicalError(src, st) ==
  LET errorPosition == st.pos - 1
      positionInLine == errorPosition - st.lineStart + 1
  IN [errorType |-> "LexicalError",
      char |-> At(src, errorPosition),
      lineNumber |-> st.line,
      position |-> IF positionInLine > 0 THEN positionInLine ELSE 1]

\* lines 290-293: the CompilerError thrown without a collector; its message
\* carries the line, errorPosition + 1 and the character
lexicalThrow(src, st) ==
  [errorType |-> "CompilerError",
   char |-> At(src, st.pos - 1),
   lineNumber |-> st.line,
   position |-> st.pos]

\* the texts of the model
Chars == {"a", "b", "/", " ", "\n", NonAscii}

RECURSIVE Texts(_)
Texts(n) == IF n = 0 THEN { <<>> } ELSE { Append(t, c) : t \in Texts(n - 1), c \in Chars }

\* lexer definitions: a greedy any-char rule beside a newline rule; a rule that
\* runs over a line break; a comment rule beside a white-space rule
LexerDefinitions ==
  { << [parts |-> <<"a", ".", "*", "[dot]">>, code |-> ReturnCode("ATAIL")],
       [parts |-> <<"\\", "n">>, code |-> ReturnCode("NL")] >>,
    << [parts |-> <<"a">>, code |-> ReturnCode("A")],
       [parts |-> <<"a", "\\", "n", "[dot]", "b", "[dot]">>, code |-> ReturnCode("ANB")],
       [parts |-> <<"b">>, code |-> ReturnCode("B")] >>,
    << [parts |-> <<"/", "/", "[dot]", "a", "*", "[dot]">>,
        code |-> <<"return", " ", "(", "_COMMENT", ")", ";">>],
       [parts |-> <<"[ws]">>, code |-> ReturnCode("_WHITESPACE")],
       [parts |-> <<"a", "b", "[dot]">>, code |-> ReturnCode("AB")] >> }

\* the generator run and the load of its file, as main.ts finds the lexer DFA
LoadLexer(rs) ==
  LET load(d) == deserialize(serialize(d.dfa, "lex"), d.next)
      convert(n) == load(fromNFA(n.nfa, n.next))
  IN convert(buildFromLexParser(rs, 0))

\* the generator's variables when the lexer DFA of the rules rs has been loaded
AutoLoaded(rs) == AutoIdle(rs, "loaded", LoadLexer(rs))

\* tokenizeSourceCode up to its loop, lines 23-43, on a loaded lexer DFA
LexInit ==
  /\ \E l \in LexerDefinitions : AutoLoaded(parseRules(l))
  /\ sourceCode \in UNION { Texts(n) : n \in 0..MaxSource }
  /\ hasCollector \in BOOLEAN
  /\ lexPc = "run"
  /\ currentLineNumber = 1
  /\ currentLineStartPosition = 0
  /\ currentCharacter = ""
  /\ currentStateIndex = IndexOf(loaded.stateList, loaded.initialStates[1])
  /\ currentPosition = 0
  /\ tokens = <<>>
  /\ collectedErrors = <<>>
  /\ thrownError = <<>>
  /\ lexCall = NoCall
  /\ ParseIdle(<<>>, [symbols |-> <<>>], FALSE, "idle", MAX_ITERATIONS)
  /\ IrIdle(<<0>>)
  /\ CgIdle
  /\ DrvIdle("idle")
  /\ PeepIdle(<<>>)

\* the position left at the start of the token
rollbackPosition_toStart(st) == st.pos - Len(st.buffer)

\* line 200: currentPosition = lastAcceptPosition + 1
rollbackPosition(st) == st.lastPos + 1

\* the record of a call: where it started, the last character it read, whether
\* the DFA had no transition on it, and the collector's length before the call
CallRecord(kind, st) ==
  [kind |-> kind, start |-> currentPosition, failedAt |-> st.pos - 1, dfaFailed |-> st.state = -1,
   errorsBefore |-> Len(collectedErrors)]

\* one call of performTokenization, lines 133-306
PerformTokenization ==
  /\ lexPc = "run"
  /\ IF currentPosition = Len(sourceCode)
     THEN /\ lexPc' = "end"
          /\ lexCall' = [NoCall EXCEPT !.kind = "eof", !.start = currentPosition]
          /\ UNCHANGED <<currentLineNumber, currentLineStartPosition, currentCharacter,
                         currentStateIndex, currentPosition, tokens, collectedErrors, thrownError>>
     ELSE \E st \in { scan(loaded, sourceCode,
                           [state |-> IndexOf(loaded.stateList, loaded.initialStates[1]),
                            pos |-> currentPosition, line |-> currentLineNumber,
                            lineStart |-> currentLineStartPosition, rollback |-> 0,
                            lastState |-> -1, lastPos |-> 0, buffer |-> <<>>,
                            ch |-> currentCharacter]) } :
            /\ currentCharacter' = st.ch
            /\ currentLineStartPosition' = st.lineStart
            /\ IF st.lastState # -1
               THEN \* an accepting state was seen: roll back and emit the token
                    /\ currentPosition' = rollbackPosition(st)
                    /\ currentLineNumber' = st.line - st.rollback
                    /\ currentStateIndex' = IndexOf(loaded.stateList, loaded.initialStates[1])
                    /\ tokens' = Append(tokens, acceptedToken(loaded, sourceCode, st))
                    /\ lexPc' = "run"
                    /\ lexCall' = CallRecord("token", st)
                    /\ UNCHANGED <<collectedErrors, thrownError>>
               ELSE IF IsWhitespace(st.ch) \/ CharCode(st.ch) >= 128 \/ hasCollector
               THEN \* white space is skipped; so is an unrecognised character, which
                    \* is reported only to a collector
                    /\ currentPosition' = st.pos
                    /\ currentLineNumber' = st.line
                    /\ currentStateIndex' = IndexOf(loaded.stateList, loaded.initialStates[1])
                    /\ collectedErrors' = IF ~IsWhitespace(st.ch) /\ hasCollector
                                          THEN Append(collectedErrors, lexicalError(sourceCode, st))
                                          ELSE collectedErrors
                    /\ lexPc' = IF st.pos >= Len(sourceCode) THEN "end" ELSE "run"
                    /\ lexCall' = CallRecord(IF IsWhitespace(st.ch) THEN "skip" ELSE "error", st)
                    /\ UNCHANGED <<tokens, thrownError>>
               ELSE \* an unrecognised ASCII character and no collector
                    /\ currentPosition' = st.pos
                    /\ currentLineNumber' = st.line
                    /\ currentStateIndex' = st.state
                    /\ thrownError' = <<lexicalThrow(sourceCode, st)>>
                    /\ lexPc' = "thrown"
                    /\ lexCall' = CallRecord("error", st)
                    /\ UNCHANGED <<tokens, collectedErrors>>
  /\ UNCHANGED <<sourceCode, hasCollector>>
  /\ UNCHANGED <<autoVars, parseVars, backVars>>

\* lines 313-321: the end token, and the return
AppendEnd ==
  /\ lexPc = "end"
  /\ tokens' = Append(tokens, [name |-> "SP_END", literal |-> <<>>,
                               lineNumber |-> currentLineNumber, position |-> 0])
  /\ lexPc' = "done"
  /\ UNCHANGED <<sourceCode, hasCollector, currentLineNumber, currentLineStartPosition,
                 currentCharacter, currentStateIndex, currentPosition, collectedErrors,
                 thrownError, lexCall>>
  /\ UNCHANGED <<autoVars, parseVars, backVars>>

LexNext == PerformTokenization \/ AppendEnd

(***************************************************************************)
(* SyntaxAnalyzer.ts: parseTokenSequence                                   *)
(***************************************************************************)
WHITESPACE_SYMBOL_ID == -10

WHITESPACE_TOKEN_NAME == "_WHITESPACE"

UNMATCHED_TOKEN_NAME == "_UNMATCH"

COMMENT_TOKEN_NAME == "_COMMENT"

\* new SyntaxTreeNode(name, type, literal)
SyntaxTreeNode(nodeName, nodeType, literalValue) ==
  [nodeName |-> nodeName, nodeType |-> nodeType, literalValue |-> literalValue,
   childNodes |-> <<>>]

\* createNonterminalNode(nodeName, ...entries); a non-terminal's literal is
\* its name, kept here as a one-piece text
createNonterminalNode(nodeName, entries) ==
  [elementType |-> "nonterminal",
   symbolName |-> <<nodeName>>,
   syntaxNode |-> [SyntaxTreeNode(nodeName, "nonterminal", <<nodeName>>)
                     EXCEPT !.childNodes = [k \in 1..Len(entries) |-> entries[k].syntaxNode]]]

\* lines 48-59: comments that end a line become line-break tokens (without
\* lineNumber and position), the other comments and blanks are removed
preprocess(toks) ==
  LET endsWithNewline(literal) == Len(literal) > 0 /\ literal[Len(literal)] = "\n"
      replaced(t) == IF t.name = COMMENT_TOKEN_NAME /\ endsWithNewline(t.literal)
                     THEN [name |-> WHITESPACE_TOKEN_NAME, literal |-> <<"\n">>]
                     ELSE t
      kept(t) == /\ t.name # COMMENT_TOKEN_NAME
                 /\ ~(t.name = WHITESPACE_TOKEN_NAME /\ t.literal # <<"\n">>)
  IN SelectSeq([k \in 1..Len(toks) |-> replaced(toks[k])], kept)

\* lines 64-74
tokenIdMap(a) ==
  LET RECURSIVE go(_, _)
      go(map, i) ==
        IF i >= Len(a.symbols) THEN map
        ELSE go(IF At(a.symbols, i).type \in {"sptoken", "token"}
                THEN MapSet(map, At(a.symbols, i).content, i) ELSE map, i + 1)
  IN MapSet(go(<<>>, 0), WHITESPACE_TOKEN_NAME, WHITESPACE_SYMBOL_ID)

\* lines 99-123: the merged cell of an ACTION cell
actionCellOf(a, state, nonNonTerminalCount) ==
  LET row == At(a.ACTIONTable, state)
  IN IF nonNonTerminalCount >= Len(row) THEN [action |-> "default", target |-> 0]
     ELSE LET actionCell == At(row, nonNonTerminalCount)
          IN CASE actionCell.type = "shift" -> [action |-> "shift", target |-> actionCell.data]
               [] actionCell.type = "reduce" -> [action |-> "reduce", target |-> actionCell.data]
               [] actionCell.type = "acc" -> [action |-> "acc", target |-> 0]
               [] OTHER -> [action |-> "default", target |-> 0]

\* lines 79-132: parsingTable[state][symbol], GOTO columns counted over the
\* non-terminals and ACTION columns over the other symbols
parsingTable(a) ==
  LET RECURSIVE row(_, _, _, _, _)
      row(state, cells, symbolIndex, nonTerminalCount, nonNonTerminalCount) ==
        IF symbolIndex >= Len(a.symbols) THEN cells
        ELSE IF At(a.symbols, symbolIndex).type = "nonterminal"
             THEN row(state,
                      Append(cells, [action |-> "nonterminal",
                                     target |-> At(At(a.GOTOTable, state), nonTerminalCount)]),
                      symbolIndex + 1, nonTerminalCount + 1, nonNonTerminalCount)
             ELSE row(state, Append(cells, actionCellOf(a, state, nonNonTerminalCount)),
                      symbolIndex + 1, nonTerminalCount, nonNonTerminalCount + 1)
  IN [s \in 1..Len(a.ACTIONTable) |-> row(s - 1, <<>>, 0, 0, 0)]

\* Array.pop, one time less than r
PopTimes_oneLess(stack, r) ==
  SubSeq(stack, 1, IF r = 0 THEN Len(stack) ELSE IF Len(stack) > r - 1 THEN Len(stack) - (r - 1) ELSE 0)

\* Array.pop, r times: popping an empty array does nothing
PopTimes(stack, r) == SubSeq(stack, 1, IF Len(stack) > r THEN Len(stack) - r ELSE 0)

\* a thrown CompilerError and its message's data
CompilerError(kind, state, tokenName, line) ==
  [errorType |-> "CompilerError", kind |-> kind, state |-> state, tokenName |-> tokenName,
   lineNumber |-> line]

\* lines 204-240: a reduce by producers[target].  The semantic action is kept
\* as the node name and the $-references of its newNode call.
reduceBy(a, st, target) ==
  IF target < 0 \/ target >= Len(a.producers)
  THEN [st EXCEPT !.thrown = <<[errorType |-> "TypeError", kind |-> "noProduction"]>>]
  ELSE LET production == At(a.producers, target)
           currentRightHandSideLength == Len(production.rhs)
           height == Len(st.symbolStack)
           \* lines 148-154: symbolStack.slice(index - length - 1)[0]
           getRightHandSideSymbol(index) ==
             LET from == height + index - currentRightHandSideLength - 1
             IN At(st.symbolStack, IF from < 0 THEN 0 ELSE from)
           dollars == production.action.dollars
           badReference == \E k \in 1..Len(dollars) :
                              ~(dollars[k] > 0 /\ dollars[k] <= currentRightHandSideLength)
           lhsName == <<At(a.symbols, production.lhs).content, "_DOLLAR2">>
       IN IF badReference
          THEN [st EXCEPT !.thrown = <<CompilerError("badReference", target, "", st.lineNumber)>>]
          ELSE IF Len(dollars) > 0 /\ height = 0
          THEN [st EXCEPT !.thrown = <<[errorType |-> "TypeError", kind |-> "noEntry"]>>]
          ELSE LET made == createNonterminalNode(production.action.node,
                              [k \in 1..Len(dollars) |-> getRightHandSideSymbol(dollars[k])])
                   currentSymbol == [elementType |-> "nonterminal", symbolName |-> lhsName,
                                     syntaxNode |-> made.syntaxNode]
               IN [st EXCEPT
                     !.stateStack = PopTimes(@, currentRightHandSideLength),
                     !.symbolStack = Append(PopTimes(@, currentRightHandSideLength),
                                            currentSymbol),
                     !.ret = production.lhs]

\* a Token's lineNumber and position; the tokens made by the preprocessing
\* have neither, and addSyntaxError's parameters default to 0
tokenLineNumber(t) == IF "lineNumber" \in DOMAIN t THEN t.lineNumber ELSE 0

tokenPosition(t) == IF "position" \in DOMAIN t THEN t.position ELSE 0

\* lines 172-263.  st holds what the call reads and writes: lineNumber, the
\* two stacks, the collector's errors, the error thrown, the log, and ret, the
\* value returned.  index is currentTokenIndex.
processSymbol(toks, a, table, collector, index, st, symbolIndex) ==
  IF symbolIndex = WHITESPACE_SYMBOL_ID
  THEN [st EXCEPT !.lineNumber = @ + 1, !.ret = symbolIndex]
  ELSE
  LET depth == Len(st.stateStack)
      currentState == IF depth = 0 THEN Undefined ELSE st.stateStack[depth]
      hasCell == /\ depth > 0
                 /\ currentState >= 0 /\ currentState < Len(table)
                 /\ symbolIndex >= 0 /\ symbolIndex < Len(At(table, currentState))
      symbolContent == IF symbolIndex >= 0 /\ symbolIndex < Len(a.symbols)
                       THEN At(a.symbols, symbolIndex).content ELSE "unknown"
      currentToken == At(toks, index - 1)
      push(cell, s) == [s EXCEPT !.stateStack = Append(@, cell.target), !.ret = symbolIndex]
      onCell(cell) ==
        CASE cell.action = "shift" ->
               push(cell, [st EXCEPT
                 !.symbolStack = Append(@,
                    [elementType |-> "token", symbolName |-> <<currentToken.name>>,
                     syntaxNode |-> SyntaxTreeNode(currentToken.name, "token",
                                                   currentToken.literal)]),
                 !.log.shifted = Append(@, currentToken)])
          [] cell.action = "nonterminal" -> push(cell, st)
          [] cell.action = "reduce" -> reduceBy(a, st, cell.target)
          [] cell.action = "acc" ->
               [st EXCEPT !.ret = -1, !.log.acc = Append(@, Len(st.symbolStack))]
          [] OTHER ->
               IF collector
               THEN [st EXCEPT
                       !.errors = Append(@, [errorType |-> "SyntaxError",
                                             kind |-> "noAction",
                                             state |-> currentState,
                                             tokenName |-> symbolContent,
                                             lineNumber |-> tokenLineNumber(currentToken),
                                             position |-> tokenPosition(currentToken)]),
                       !.ret = -1,
                       !.log.noAction = Append(@, [state |-> currentState,
                                                   tokenIndex |-> index - 1,
                                                   errorsBefore |-> Len(st.errors)])]
               ELSE [st EXCEPT
                       !.thrown = <<CompilerError("noAction", currentState, symbolContent,
                                                  st.lineNumber)>>,
                       !.log.noAction = Append(@, [state |-> currentState,
                                                   tokenIndex |-> index - 1,
                                                   errorsBefore |-> Len(st.errors)])]
  IN IF ~hasCell
     THEN [st EXCEPT !.thrown = <<CompilerError("tableAccess", currentState, symbolContent,
                                                st.lineNumber)>>]
     ELSE onCell(At(At(table, currentState), symbolIndex))

\* the driver's variables that processSymbol reads and writes, as its st
DriverState ==
  [lineNumber |-> lineNumber, symbolStack |-> symbolStack, stateStack |-> stateStack,
   errors |-> syntaxErrors, thrown |-> parseThrown, log |-> driverLog, ret |-> driverResult]

\* the driver after a processSymbol call that left st: at pc, or thrown
AfterCall(st, pc) ==
  /\ lineNumber' = st.lineNumber
  /\ symbolStack' = st.symbolStack
  /\ stateStack' = st.stateStack
  /\ syntaxErrors' = st.errors
  /\ parseThrown' = st.thrown
  /\ driverLog' = st.log
  /\ driverResult' = IF st.thrown = <<>> THEN st.ret ELSE driverResult
  /\ parsePc' = IF st.thrown = <<>> THEN pc ELSE "thrown"
  /\ UNCHANGED astRoot

\* the variables a processSymbol call may write, but for the error thrown
callVars == <<lineNumber, symbolStack, stateStack, syntaxErrors, driverLog, driverResult>>

\* requireCondition(false, ...) in the driver itself
Throw(kind) ==
  /\ parseThrown' = <<CompilerError(kind, IF Len(stateStack) = 0 THEN Undefined
                                          ELSE stateStack[Len(stateStack)],
                                    "", lineNumber)>>
  /\ parsePc' = "thrown"
  /\ UNCHANGED <<callVars, astRoot>>

\* return node
Return(node) ==
  /\ astRoot' = node
  /\ parsePc' = "returned"
  /\ UNCHANGED <<callVars, parseThrown>>

\* the driver goes on at pc
Goto(pc) ==
  /\ parsePc' = pc
  /\ UNCHANGED <<callVars, parseThrown, astRoot>>

\* lines 40-74, 135-142 and 281-285: the preprocessing, the stacks, the first token
Start ==
  /\ parsePc = "start"
  /\ IF \E k \in 1..Len(parserTokens) : parserTokens[k].name = UNMATCHED_TOKEN_NAME
     THEN /\ Throw("unmatched")
          /\ UNCHANGED <<parserTokens, currentTokenIndex, token>>
     ELSE \E toks \in { preprocess(parserTokens) } :
            /\ parserTokens' = toks
            /\ stateStack' = <<analyzer.startStateId>>
            /\ UNCHANGED <<lineNumber, symbolStack, syntaxErrors, driverLog, driverResult,
                           parseThrown, astRoot>>
            /\ IF Len(toks) = 0
               THEN token' = Null /\ currentTokenIndex' = 0 /\ parsePc' = "exit"
               ELSE /\ currentTokenIndex' = 1
                    /\ IF MapHas(tokenIdMap(analyzer), toks[1].name)
                       THEN token' = MapGet(tokenIdMap(analyzer), toks[1].name) /\ parsePc' = "outer"
                       ELSE token' = Undefined /\ parsePc' = "exit"
  /\ UNCHANGED <<analyzer, errorCollector, iterationCount, innerIterationCount, callerCap>>
  /\ UNCHANGED <<autoVars, lexVars, backVars>>

\* lines 293-298: the head of the outer loop and the first processSymbol(token)
OuterIteration ==
  /\ parsePc = "outer"
  /\ iterationCount' = iterationCount + 1
  /\ IF ~(iterationCount + 1 < MAX_ITERATIONS)
     THEN Throw("outerCap") /\ UNCHANGED innerIterationCount
     ELSE \E st \in { processSymbol(parserTokens, analyzer, parsingTable(analyzer),
                                    errorCollector, currentTokenIndex, DriverState, token) } :
            /\ AfterCall(st, "inner")
            /\ innerIterationCount' = IF st.thrown = <<>> THEN 0 ELSE innerIterationCount
  /\ UNCHANGED <<parserTokens, analyzer, errorCollector, currentTokenIndex, token, callerCap>>
  /\ UNCHANGED <<autoVars, lexVars, backVars>>

\* the pass with the cap tested one iteration too late
InnerIteration_lateCap ==
  /\ parsePc = "inner"
  /\ token # driverResult
  /\ innerIterationCount' = innerIterationCount + 1
  /\ IF ~(innerIterationCount + 1 <= MAX_ITERATIONS)
     THEN Throw("innerCap")
     ELSE IF driverResult = -1
     THEN IF Len(symbolStack) = 1
          THEN Return(symbolStack[1].syntaxNode)
          ELSE Throw("acceptHeight")
     ELSE \E st \in { processSymbol(parserTokens, analyzer, parsingTable(analyzer),
                                    errorCollector, currentTokenIndex, DriverState,
                                    driverResult) } :
            AfterCall(st, "retry")
  /\ UNCHANGED <<parserTokens, analyzer, errorCollector, currentTokenIndex, token,
                 iterationCount, callerCap>>
  /\ UNCHANGED <<autoVars, lexVars, backVars>>

\* lines 300-316: a pass of the inner loop up to processSymbol(result)
InnerIteration ==
  /\ parsePc = "inner"
  /\ token # driverResult
  /\ innerIterationCount' = innerIterationCount + 1
  /\ IF ~(innerIterationCount + 1 < MAX_ITERATIONS)
     THEN Throw("innerCap")
     ELSE IF driverResult = -1
     THEN IF Len(symbolStack) = 1
          THEN Return(symbolStack[1].syntaxNode)
          ELSE Throw("acceptHeight")
     ELSE \E st \in { processSymbol(parserTokens, analyzer, parsingTable(analyzer),
                                    errorCollector, currentTokenIndex, DriverState,
                                    driverResult) } :
            AfterCall(st, "retry")
  /\ UNCHANGED <<parserTokens, analyzer, errorCollector, currentTokenIndex, token,
                 iterationCount, callerCap>>
  /\ UNCHANGED <<autoVars, lexVars, backVars>>

\* lines 321-323: the rest of the pass, processSymbol(token) again
InnerRetry ==
  /\ parsePc = "retry"
  /\ IF driverResult # token /\ driverResult # -1
     THEN \E st \in { processSymbol(parserTokens, analyzer, parsingTable(analyzer),
                                    errorCollector, currentTokenIndex, DriverState, token) } :
            AfterCall(st, "inner")
     ELSE Goto("inner")
  /\ UNCHANGED <<parserTokens, analyzer, errorCollector, currentTokenIndex, token,
                 iterationCount, innerIterationCount, callerCap>>
  /\ UNCHANGED <<autoVars, lexVars, backVars>>

\* a syntax error of the driver itself, as addSyntaxError receives it
driverError(kind, tokenName, line, position) ==
  [errorType |-> "SyntaxError", kind |-> kind, tokenName |-> tokenName, lineNumber |-> line,
   position |-> position]

\* analyzer.symbols.findIndex(s => s.content === content)
findIndex(symbols, content) ==
  IF \E k \in 1..Len(symbols) : symbols[k].content = content
  THEN (CHOOSE k \in 1..Len(symbols) :
          symbols[k].content = content /\ \A j \in 1..(k - 1) : symbols[j].content # content) - 1
  ELSE -1

\* lines 326-364: the inner loop has ended; the next token
ReadNextToken ==
  /\ parsePc = "inner"
  /\ token = driverResult
  /\ IF currentTokenIndex >= Len(parserTokens)
     THEN /\ IF Len(symbolStack) = 1
             THEN Return(symbolStack[1].syntaxNode)
             ELSE Throw("noAccept")
          /\ UNCHANGED <<currentTokenIndex, token>>
     ELSE \E nextTok \in { At(parserTokens, currentTokenIndex) } :
            /\ currentTokenIndex' = currentTokenIndex + 1
            /\ IF MapHas(tokenIdMap(analyzer), nextTok.name)
               THEN token' = MapGet(tokenIdMap(analyzer), nextTok.name) /\ Goto("outer")
               ELSE IF nextTok.name = "SP_END"
               THEN IF findIndex(analyzer.symbols, "SP_END") # -1
                    THEN token' = findIndex(analyzer.symbols, "SP_END") /\ Goto("outer")
                    ELSE token' = Undefined /\ Throw("endUnmapped")
               ELSE IF errorCollector
               THEN /\ token' = Undefined
                    /\ syntaxErrors' = Append(syntaxErrors,
                         driverError("unmappedToken", nextTok.name, tokenLineNumber(nextTok),
                                     tokenPosition(nextTok)))
                    /\ parsePc' = "exit"
                    /\ UNCHANGED <<lineNumber, symbolStack, stateStack, driverLog, driverResult,
                                   parseThrown, astRoot>>
               ELSE token' = Undefined /\ Throw("unmappedToken")
  /\ UNCHANGED <<parserTokens, analyzer, errorCollector, iterationCount, innerIterationCount, callerCap>>
  /\ UNCHANGED <<autoVars, lexVars, backVars>>

\* lines 367-379: the outer loop has ended without a return
PostLoop ==
  /\ parsePc = "exit"
  /\ IF errorCollector
     THEN /\ syntaxErrors' = Append(syntaxErrors,
               IF currentTokenIndex > 0
               THEN driverError("loopExit", At(parserTokens, currentTokenIndex - 1).name,
                                tokenLineNumber(At(parserTokens, currentTokenIndex - 1)),
                                tokenPosition(At(parserTokens, currentTokenIndex - 1)))
               ELSE driverError("loopExit", "none", lineNumber, 0))
          /\ astRoot' = Null
          /\ parsePc' = "returned"
          /\ UNCHANGED <<lineNumber, symbolStack, stateStack, driverLog, driverResult,
                         parseThrown>>
     ELSE Throw("loopExit")
  /\ UNCHANGED <<parserTokens, analyzer, errorCollector, currentTokenIndex, token,
                 iterationCount, innerIterationCount, callerCap>>
  /\ UNCHANGED <<autoVars, lexVars, backVars>>

ParseNext == Start \/ OuterIteration \/ InnerIteration \/ InnerRetry \/ ReadNextToken \/ PostLoop

\* ---- the analyzers of the model ----
\* The grammar L -> x L | y | (empty), with the symbols in the order
\* x, L, y, SP_END, so that the symbol index 0 is a token and the ACTION and
\* GOTO columns differ from the symbol indices.
ActionCell(type, data) == [type |-> type, data |-> data]

ListSymbols ==
  << [type |-> "token", content |-> "x"], [type |-> "nonterminal", content |-> "L"],
     [type |-> "token", content |-> "y"], [type |-> "sptoken", content |-> "SP_END"] >>

ListProducers ==
  << [lhs |-> 1, rhs |-> <<0, 1>>, action |-> [node |-> "L", dollars |-> <<1, 2>>]],
     [lhs |-> 1, rhs |-> <<2>>, action |-> [node |-> "L", dollars |-> <<1>>]],
     [lhs |-> 1, rhs |-> <<>>, action |-> [node |-> "L", dollars |-> <<>>]] >>

\* the LALR(1) table of the grammar; state 1 accepts, states 0 and 2 expect a
\* list, states 3 and 4 end one
ListAnalyzer ==
  [symbols |-> ListSymbols,
   producers |-> ListProducers,
   startStateId |-> 0,
   ACTIONTable |->
     << <<ActionCell("shift", 2), ActionCell("shift", 3), ActionCell("reduce", 2)>>,
        <<ActionCell("none", 0), ActionCell("none", 0), ActionCell("acc", 0)>>,
        <<ActionCell("shift", 2), ActionCell("shift", 3), ActionCell("reduce", 2)>>,
        <<ActionCell("none", 0), ActionCell("none", 0), ActionCell("reduce", 1)>>,
        <<ActionCell("none", 0), ActionCell("none", 0), ActionCell("reduce", 0)>> >>,
   GOTOTable |-> << <<1>>, <<-1>>, <<4>>, <<-1>>, <<-1>> >>]

\* malformed: the GOTO of the start state leads back to it, so that the
\* empty reduction on SP_END repeats
LoopingAnalyzer == [ListAnalyzer EXCEPT !.GOTOTable[1] = <<0>>]

\* malformed: state 2 accepts on SP_END, whatever the stack holds
EarlyAccAnalyzer == [ListAnalyzer EXCEPT !.ACTIONTable[3][3] = ActionCell("acc", 0)]

Analyzers == {ListAnalyzer, LoopingAnalyzer, EarlyAccAnalyzer}

\* ---- the token lists of the model ----
TokenKinds ==
  { [name |-> "x", literal |-> <<"x">>],
    [name |-> "y", literal |-> <<"y">>],
    [name |-> "z", literal |-> <<"z">>],
    [name |-> WHITESPACE_TOKEN_NAME, literal |-> <<"\n">>],
    [name |-> WHITESPACE_TOKEN_NAME, literal |-> <<" ">>],
    [name |-> COMMENT_TOKEN_NAME, literal |-> <<"/", "/", "\n">>],
    [name |-> COMMENT_TOKEN_NAME, literal |-> <<"/", "*", "*", "/">>],
    [name |-> UNMATCHED_TOKEN_NAME, literal |-> <<"?">>] }

RECURSIVE KindLists(_)
KindLists(n) ==
  IF n = 0 THEN { <<>> } ELSE { Append(l, k) : l \in KindLists(n - 1), k \in TokenKinds }

\* the tokens with the line and column a tokenizer gives them: the line is
\* one more than the line breaks before the token, the column its place
Placed(kinds) ==
  [k \in 1..Len(kinds) |->
     [name |-> kinds[k].name, literal |-> kinds[k].literal,
      lineNumber |-> 1 + Cardinality({ j \in 1..(k - 1) :
                                         kinds[j].literal[Len(kinds[j].literal)] = "\n" }),
      position |-> k]]

\* Tokenizer.ts lines 314-319: the end token
WithEnd(toks) ==
  Append(toks, [name |-> "SP_END", literal |-> <<>>,
                lineNumber |-> IF Len(toks) = 0 THEN 1 ELSE toks[Len(toks)].lineNumber,
                position |-> 0])

TokenLists ==
  LET bodies == UNION { KindLists(n) : n \in 0..MaxTokens }
  IN { Placed(b) : b \in bodies } \cup { WithEnd(Placed(b)) : b \in bodies }

\* parseTokenSequence(tokens, analyzer, errorCollector?) is called
ParseInit ==
  /\ AutoIdle(<<>>, "idle", NewAutomaton)
  /\ LexIdle(<<>>)
  /\ \E toks \in TokenLists, a \in Analyzers, collector \in BOOLEAN,
        cap \in {MAX_ITERATIONS - 1, MAX_ITERATIONS} :
       ParseIdle(toks, a, collector, "start", cap)
  /\ IrIdle(<<0>>)
  /\ CgIdle
  /\ DrvIdle("idle")
  /\ PeepIdle(<<>>)

(***************************************************************************)
(* IntermediateCodeGenerator (src/unnamed/part_007).                       *)
(*                                                                         *)
(* A generator object is a record g.  Its field GLOBAL_SCOPE_PATH is the   *)
(* module-level array of line 31: this._scopePath is only ever assigned    *)
(* that array itself (lines 101, 276, 291), never a copy, so the two names *)
(* denote one array and every push or pop of enterScope and exitScope is   *)
(* a push or pop of GLOBAL_SCOPE_PATH.  A thrown CompilerError is kept in  *)
(* g.thrown; once it is set nothing more of the constructor runs.          *)
(*                                                                         *)
(* The operands of a quadruple are JavaScript strings; the model writes    *)
(* such a string as the tuple of the pieces it is concatenated from, the   *)
(* counters in decimal (ToString), and '' as <<>>.                         *)
(* A syntax tree is given by the records its productions build: node.p is  *)
(* the child sequence that matchesSequence tests.                          *)
(***************************************************************************)
LABEL_PREFIX == "_label_"
VARIABLE_PREFIX == "_var_"
EmptyString == <<>>

InstructionQuad(operation, operand1, operand2, result) ==
  [operation |-> operation, operand1 |-> operand1, operand2 |-> operand2, result |-> result]

IntermediateVariable(variableId, variableName, dataType, scopePath, isInitialized) ==
  [kind |-> "variable", variableId |-> variableId, variableName |-> variableName,
   dataType |-> dataType, scopePath |-> scopePath, isInitialized |-> isInitialized]

IntermediateArray(arrayId, dataType, arrayName, length, scopePath) ==
  [kind |-> "array", arrayId |-> arrayId, dataType |-> dataType, arrayName |-> arrayName,
   length |-> length, scopePath |-> scopePath]

IntermediateFunction(functionName, returnType, entryLabel, exitLabel, scopePath) ==
  [functionName |-> functionName, returnType |-> returnType, parameterList |-> <<>>,
   entryLabel |-> entryLabel, exitLabel |-> exitLabel, scopePath |-> scopePath,
   hasReturnStatement |-> FALSE, localVariables |-> <<>>, childFunctions |-> <<>>]

\* v.variableName or v.arrayName, and v.variableId or v.arrayId
nameOf(v) == IF v.kind = "variable" THEN v.variableName ELSE v.arrayName
idOf(v) == IF v.kind = "variable" THEN v.variableId ELSE v.arrayId

\* the fields the constructor sets before it walks the tree; ret is the
\* value returned by the last processExpression or processArguments; assigned is
\* not a field of the program: it is the set of the variable ids that were
\* introduced as a parameter or whose '=var' quadruple has been emitted, and
\* earlyReads the names read when their id was not in it
NewGenerator(globalScopePath) ==
  [GLOBAL_SCOPE_PATH |-> globalScopePath, variablePool |-> <<>>, functionPool |-> <<>>,
   instructionList |-> <<>>, variableCounter |-> 0, labelCounter |-> 0, scopeCounter |-> 0,
   loopStack |-> <<>>, postChecks |-> <<>>, callsInScope |-> <<>>, basicBlocks |-> <<>>,
   leaders |-> <<>>, thrown |-> <<>>, ret |-> <<>>, assigned |-> {}, earlyReads |-> {}]

Ok(g) == g.thrown = <<>>

requireCondition(g, condition, hint, name) ==
  IF Ok(g) /\ ~condition
    THEN [g EXCEPT !.thrown = <<[error |-> "CompilerError", hint |-> hint, name |-> name]>>]
    ELSE g

\* VARIABLE_PREFIX + this._variableCounter, before the increment
variableId(g) == <<VARIABLE_PREFIX, ToString(g.variableCounter)>>
allocateVariableId(g) == IF Ok(g) THEN [g EXCEPT !.variableCounter = @ + 1] ELSE g

\* LABEL_PREFIX + this._labelCounter + '_' + description
label(g, description) == <<LABEL_PREFIX, ToString(g.labelCounter), "_">> \o description
allocateLabel(g) == IF Ok(g) THEN [g EXCEPT !.labelCounter = @ + 1] ELSE g

createInstruction(g, operation, operand1, operand2, result) ==
  IF Ok(g)
    THEN [g EXCEPT !.instructionList =
                      Append(@, InstructionQuad(operation, operand1, operand2, result))]
    ELSE g

addVariable(g, variable) ==
  IF Ok(g) THEN [g EXCEPT !.variablePool = Append(@, variable)] ELSE g

enterScope(g) ==
  IF Ok(g)
    THEN [g EXCEPT !.scopeCounter = @ + 1,
                   !.GLOBAL_SCOPE_PATH = Append(@, g.scopeCounter + 1)]
    ELSE g

exitScope(g) ==
  IF Ok(g) /\ g.GLOBAL_SCOPE_PATH # <<>>
    THEN [g EXCEPT !.GLOBAL_SCOPE_PATH = SubSeq(@, 1, Len(@) - 1)]
    ELSE g

\* scope1.join('/') === scope2.join('/'): the elements are numbers, so the
\* joined strings are equal exactly when the arrays are
areScopesEqual(scope1, scope2) == scope1 = scope2

isScopeContained(bigScope, smallScope) ==
  /\ Len(bigScope) <= Len(smallScope)
  /\ \A i \in 1..Len(bigScope) : smallScope[i] = bigScope[i]

\* the index in the pool of the nearest variable of that name, 0 for null
findVariable(g, variableName) ==
  LET inScope(n) ==
        {i \in DOMAIN g.variablePool :
           /\ nameOf(g.variablePool[i]) = variableName
           /\ areScopesEqual(g.variablePool[i].scopePath, SubSeq(g.GLOBAL_SCOPE_PATH, 1, n))}
      found == {n \in 1..Len(g.GLOBAL_SCOPE_PATH) : inScope(n) # {}}
      first(s) == CHOOSE i \in s : \A j \in s : i <= j
      last(s) == CHOOSE n \in s : \A m \in s : m <= n
  IN IF found = {} THEN 0 ELSE first(inScope(last(found)))

isVariableDuplicate(v1, v2) == nameOf(v1) = nameOf(v2) /\ v1.scopePath = v2.scopePath

\* ---- declarations ----
processVariableDeclaration(g, node) ==
  IF node.p = <<"type_spec", "IDENTIFIER">>
    THEN addVariable(
           allocateVariableId(
             requireCondition(
               requireCondition(g, node.type # "void", "void variable", node.name),
               ~\E i \in DOMAIN g.variablePool :
                  /\ areScopesEqual(g.variablePool[i].scopePath, g.GLOBAL_SCOPE_PATH)
                  /\ nameOf(g.variablePool[i]) = node.name,
               "global variable redeclared", node.name)),
           IntermediateVariable(variableId(g), node.name, node.type, g.GLOBAL_SCOPE_PATH, FALSE))
    ELSE addVariable(
           allocateVariableId(
             requireCondition(g, node.len > 0, "array length not a positive integer", node.name)),
           IntermediateArray(variableId(g), node.type, node.name, node.len, g.GLOBAL_SCOPE_PATH))

\* this._functionPool.find(v => v.functionName === funcName), as an index; 0
\* for undefined
findFunction(g, funcName) ==
  LET s == {i \in DOMAIN g.functionPool : g.functionPool[i].functionName = funcName}
  IN IF s = {} THEN 0 ELSE CHOOSE i \in s : \A j \in s : i <= j

processParameter(g, node, funcName) ==
  LET push(h) ==
        IF Ok(h)
          THEN [h EXCEPT !.functionPool[findFunction(h, funcName)].parameterList =
                            Append(@, variableId(g)),
                         !.assigned = @ \cup {variableId(g)}]
          ELSE h
  IN push(addVariable(
            allocateVariableId(
              requireCondition(g, node.type # "void", "void parameter", funcName)),
            IntermediateVariable(variableId(g), node.name, node.type, g.GLOBAL_SCOPE_PATH, TRUE)))

processLocalDeclaration(g, node) ==
  LET variable ==
        IntermediateVariable(variableId(g), node.name, node.type, g.GLOBAL_SCOPE_PATH, FALSE)
  IN IF node.p = <<"type_spec", "IDENTIFIER", "CONSTANT">>
       THEN requireCondition(g, FALSE, "array declared outside the global scope", node.name)
     ELSE addVariable(
       requireCondition(allocateVariableId(g),
                        ~\E i \in DOMAIN g.variablePool :
                            isVariableDuplicate(g.variablePool[i], variable),
                        "local variable redeclared", node.name),
       variable)

RECURSIVE processLocalDeclarations(_, _)
processLocalDeclarations(g, nodes) ==
  IF nodes = <<>> THEN g
  ELSE IF Len(nodes) = 1 THEN processLocalDeclaration(g, nodes[1])
  ELSE LET declared == processLocalDeclarations(g, SubSeq(nodes, 1, Len(nodes) \div 2))
       IN IF ~Ok(declared) THEN declared
          ELSE processLocalDeclarations(declared,
                                        SubSeq(nodes, Len(nodes) \div 2 + 1, Len(nodes)))

\* ---- expressions ----
setRet(g, value) == IF Ok(g) THEN [g EXCEPT !.ret = value] ELSE g

\* a JavaScript TypeError: a property of undefined was read
typeError(g) == IF Ok(g) THEN [g EXCEPT !.thrown = <<[error |-> "TypeError"]>>] ELSE g

pushPostCheck(g, check, funcName, argc) ==
  IF Ok(g)
    THEN [g EXCEPT !.postChecks =
                      Append(@, [check |-> check, functionName |-> funcName, argc |-> argc])]
    ELSE g

pushCall(g, funcName) ==
  IF Ok(g)
    THEN [g EXCEPT !.callsInScope =
                      Append(@, [scopePath |-> g.GLOBAL_SCOPE_PATH, functionName |-> funcName])]
    ELSE g

\* args.join('&')
RECURSIVE joinArguments(_)
joinArguments(args) ==
  IF args = <<>> THEN EmptyString
  ELSE IF Len(args) = 1 THEN args[1]
  ELSE joinArguments(SubSeq(args, 1, Len(args) - 1)) \o <<"&">> \o args[Len(args)]

\* emitToTemporary allocating a second id for the value it returns
emitToTemporary_allocatesTwice(g, operation, operand1, operand2) ==
  setRet(createInstruction(allocateVariableId(allocateVariableId(g)), operation, operand1,
                           operand2, variableId(g)),
         variableId(allocateVariableId(g)))

\* const result = this.allocateVariableId(); this.createInstruction(...,
\* result); return result
emitToTemporary(g, operation, operand1, operand2) ==
  setRet(createInstruction(allocateVariableId(g), operation, operand1, operand2, variableId(g)),
         variableId(g))

RECURSIVE processExpression(_, _), processArguments(_, _)
processExpression(g, node) ==
  IF ~Ok(g) THEN g
  ELSE IF node.p = <<"LPAREN", "expr", "RPAREN">>
    THEN LET fin(h) == emitToTemporary(h, "=var", h.ret, EmptyString)
         IN fin(processExpression(g, node.expr))
  ELSE IF node.p = <<"IDENTIFIER">>
    THEN LET i == findVariable(g, node.name)
             read(v) ==
               setRet([requireCondition(g, v.isInitialized, "variable used before initialisation",
                                        v.variableName)
                         EXCEPT !.earlyReads = IF v.variableId \in g.assigned
                                                 THEN @ ELSE @ \cup {v.variableName}],
                      v.variableId)
         IN IF i = 0 THEN requireCondition(g, FALSE, "variable not defined", node.name)
            ELSE IF g.variablePool[i].kind = "array" THEN setRet(g, g.variablePool[i].arrayId)
            ELSE read(g.variablePool[i])
  ELSE IF node.p = <<"IDENTIFIER", "expr">>
    THEN LET fin(h) ==
               LET i == findVariable(h, node.name)
               IN IF i = 0 THEN requireCondition(h, FALSE, "variable not defined", node.name)
                  ELSE emitToTemporary(h, "[]", idOf(h.variablePool[i]), h.ret)
         IN fin(processExpression(g, node.expr))
  ELSE IF node.p = <<"IDENTIFIER", "args">>
    THEN LET fin(h) ==
               LET f == findFunction(h, node.name)
               IN IF ~Ok(h) THEN h
                  ELSE IF f = 0 THEN typeError(allocateVariableId(h))
                  ELSE setRet(
                         pushCall(
                           createInstruction(
                             requireCondition(
                               allocateVariableId(h),
                               Len(h.ret) = Len(h.functionPool[f].parameterList),
                               "argument count mismatch", node.name),
                             "call", <<node.name>>, joinArguments(h.ret), variableId(h)),
                           node.name),
                         variableId(h))
         IN fin(processArguments(
                  pushPostCheck(requireCondition(g, node.name # "main", "main called", node.name),
                                "returnsValue", node.name, 0),
                  node.args))
  ELSE IF node.p = <<"IDENTIFIER", "LPAREN", "RPAREN">>
    THEN LET fin(h) ==
               setRet(pushCall(createInstruction(allocateVariableId(h), "call", <<node.name>>,
                                                 EmptyString, variableId(h)),
                               node.name),
                      variableId(h))
         IN fin(pushPostCheck(requireCondition(g, node.name # "main", "main called", node.name),
                              "returnsValue", node.name, 0))
  ELSE IF node.p = <<"CONSTANT">>
    THEN emitToTemporary(g, "=const", <<node.value>>, EmptyString)
  ELSE IF node.p = <<"STRING_LITERAL">>
    THEN emitToTemporary(g, "=string", <<node.value>>, EmptyString)
  ELSE IF Len(node.p) = 3 /\ node.p[1] = "expr" /\ node.p[3] = "expr"
    THEN LET second(h1) ==
               LET fin(h2) == emitToTemporary(h2, node.p[2], h1.ret, h2.ret)
               IN fin(processExpression(h1, node.right))
         IN second(processExpression(g, node.left))
  ELSE IF Len(node.p) = 2
    THEN LET fin(h) == emitToTemporary(h, node.p[1], h.ret, EmptyString)
         IN fin(processExpression(g, node.expr))
  ELSE setRet(requireCondition(g, FALSE, "processExpression fallthrough", ""), <<"-1">>)

\* the ids of the arguments, in order, as g.ret
processArguments(g, args) ==
  IF args = <<>> THEN setRet(g, <<>>)
  ELSE LET last(h1) ==
             LET fin(h2) == setRet(h2, Append(h1.ret, h2.ret))
             IN fin(processExpression(h1, args[Len(args)]))
       IN last(processArguments(g, SubSeq(args, 1, Len(args) - 1)))

\* ---- statements ----
processExpressionStatement(g, node) ==
  IF ~Ok(g) THEN g
  ELSE IF node.p = <<"IDENTIFIER", "ASSIGN", "expr">>
    THEN LET i == findVariable(g, node.name)
             mark(h) ==
               IF Ok(h) THEN [h EXCEPT !.variablePool[i].isInitialized = TRUE] ELSE h
             fin(h) ==
               IF Ok(h)
                 THEN [createInstruction(h, "=var", h.ret, EmptyString,
                                         g.variablePool[i].variableId)
                         EXCEPT !.assigned = @ \cup {g.variablePool[i].variableId}]
                 ELSE h
         IN IF i = 0 THEN requireCondition(g, FALSE, "variable not defined", node.name)
            ELSE IF g.variablePool[i].kind # "variable"
              THEN requireCondition(g, FALSE, "assignment to an array", node.name)
            ELSE fin(processExpression(mark(g), node.expr))
  ELSE IF node.p = <<"IDENTIFIER", "expr", "ASSIGN", "expr">>
    THEN LET i == findVariable(g, node.name)
             second(h1) ==
               LET fin(h2) == createInstruction(h2, "=[]", h1.ret, h2.ret, g.variablePool[i].arrayId)
               IN fin(processExpression(h1, node.expr))
         IN IF i = 0 THEN requireCondition(g, FALSE, "array not defined", node.name)
            ELSE IF g.variablePool[i].kind # "array"
              THEN requireCondition(g, FALSE, "not an array", node.name)
            ELSE second(processExpression(g, node.index))
  ELSE IF node.p = <<"DOLLAR", "expr", "ASSIGN", "expr">>
    THEN LET second(h1) ==
               LET fin(h2) == createInstruction(h2, "=$", h1.ret, h2.ret, EmptyString)
               IN fin(processExpression(h1, node.expr))
         IN second(processExpression(g, node.index))
  ELSE IF node.p = <<"IDENTIFIER", "args">>
    THEN LET fin(h) ==
               pushCall(
                 createInstruction(
                   pushPostCheck(
                     pushPostCheck(requireCondition(h, node.name # "main", "main called", node.name),
                                   "declared", node.name, 0),
                     "argumentCount", node.name, Len(h.ret)),
                   "call", <<node.name>>, joinArguments(h.ret), EmptyString),
                 node.name)
         IN fin(processArguments(g, node.args))
  ELSE IF node.p = <<"IDENTIFIER", "LPAREN", "RPAREN">>
    THEN pushCall(
           createInstruction(
             pushPostCheck(
               pushPostCheck(requireCondition(g, node.name # "main", "main called", node.name),
                             "declared", node.name, 0),
               "argumentCount", node.name, 0),
             "call", <<node.name>>, EmptyString, EmptyString),
           node.name)
  ELSE g

RECURSIVE processStatement(_, _, _), processStatementList(_, _, _)
processCompoundStatement(g, node, context) ==
  exitScope(processStatementList(processLocalDeclarations(enterScope(g), node.locals),
                                 node.stmts, context))

\* processIfStatement closing an if without else with the end label
processIfStatement_endLabel(g, node, context) ==
  LET labels(h) ==
        LET trueLabel == label(h, <<"true">>)
            falseLabel == label(allocateLabel(h), <<"false">>)
            endLabel == label(allocateLabel(allocateLabel(h)), <<"end">>)
            else(h2) ==
              IF "else" \in DOMAIN node
                THEN createInstruction(
                       processStatement(
                         createInstruction(createInstruction(h2, "j", EmptyString, EmptyString, endLabel),
                                           "set_label", EmptyString, EmptyString, falseLabel),
                         node.else, context),
                       "set_label", EmptyString, EmptyString, endLabel)
                ELSE createInstruction(h2, "set_label", EmptyString, EmptyString, endLabel)
        IN else(processStatement(
                  createInstruction(
                    createInstruction(allocateLabel(allocateLabel(allocateLabel(h))),
                                      "set_label", EmptyString, EmptyString, trueLabel),
                    "j_false", h.ret, EmptyString, falseLabel),
                  node.then, context))
  IN labels(processExpression(g, node.expr))

processIfStatement(g, node, context) ==
  LET labels(h) ==
        LET trueLabel == label(h, <<"true">>)
            falseLabel == label(allocateLabel(h), <<"false">>)
            endLabel == label(allocateLabel(allocateLabel(h)), <<"end">>)
            else(h2) ==
              IF "else" \in DOMAIN node
                THEN createInstruction(
                       processStatement(
                         createInstruction(createInstruction(h2, "j", EmptyString, EmptyString, endLabel),
                                           "set_label", EmptyString, EmptyString, falseLabel),
                         node.else, context),
                       "set_label", EmptyString, EmptyString, endLabel)
                ELSE createInstruction(h2, "set_label", EmptyString, EmptyString, falseLabel)
        IN else(processStatement(
                  createInstruction(
                    createInstruction(allocateLabel(allocateLabel(allocateLabel(h))),
                                      "set_label", EmptyString, EmptyString, trueLabel),
                    "j_false", h.ret, EmptyString, falseLabel),
                  node.then, context))
  IN labels(processExpression(g, node.expr))

processWhileStatement(g, node, context) ==
  LET loopLabel == label(g, <<"loop">>)
      breakLabel == label(allocateLabel(g), <<"break">>)
      pushLoop(h) ==
        IF Ok(h)
          THEN [h EXCEPT !.loopStack = Append(@, [loopLabel |-> loopLabel, breakLabel |-> breakLabel])]
          ELSE h
      popLoop(h) ==
        IF Ok(h) THEN [h EXCEPT !.loopStack = SubSeq(@, 1, Len(@) - 1)] ELSE h
      body(h) ==
        popLoop(
          createInstruction(
            createInstruction(
              processStatement(createInstruction(h, "j_false", h.ret, EmptyString, breakLabel),
                               node.body, context),
              "j", EmptyString, EmptyString, loopLabel),
            "set_label", EmptyString, EmptyString, breakLabel))
  IN body(processExpression(
            createInstruction(pushLoop(allocateLabel(allocateLabel(g))),
                              "set_label", EmptyString, EmptyString, loopLabel),
            node.expr))

processContinueStatement(g) ==
  IF ~Ok(g) \/ g.loopStack = <<>>
    THEN requireCondition(g, FALSE, "continue outside a loop", "")
    ELSE createInstruction(g, "j", EmptyString, EmptyString, g.loopStack[Len(g.loopStack)].loopLabel)

\* processBreakStatement that jumps to the loop label
processBreakStatement_toLoopLabel(g) ==
  IF ~Ok(g) \/ g.loopStack = <<>>
    THEN requireCondition(g, FALSE, "break outside a loop", "")
    ELSE createInstruction(g, "j", EmptyString, EmptyString, g.loopStack[Len(g.loopStack)].loopLabel)

\* lines 577-580
processBreakStatement(g) ==
  IF ~Ok(g) \/ g.loopStack = <<>>
    THEN requireCondition(g, FALSE, "break outside a loop", "")
    ELSE createInstruction(g, "j", EmptyString, EmptyString, g.loopStack[Len(g.loopStack)].breakLabel)

processReturnStatement(g, node, context) ==
  LET flagged ==
        [g EXCEPT !.functionPool[findFunction(g, context.functionName)].hasReturnStatement = TRUE]
      fin(h) == createInstruction(h, "return_expr", h.ret, EmptyString, context.exitLabel)
  IN IF ~Ok(g) THEN g
     ELSE IF "expr" \in DOMAIN node
       THEN fin(processExpression(pushPostCheck(flagged, "returnsValue", context.functionName, 0),
                                  node.expr))
     ELSE createInstruction(pushPostCheck(flagged, "returnsVoid", context.functionName, 0),
                            "return_void", EmptyString, EmptyString, context.exitLabel)

processStatement(g, node, context) ==
  IF ~Ok(g) THEN g
  ELSE IF node.stmt = "expr_stmt" THEN processExpressionStatement(g, node)
  ELSE IF node.stmt = "compound_stmt" THEN processCompoundStatement(g, node, context)
  ELSE IF node.stmt = "if_stmt" THEN processIfStatement(g, node, context)
  ELSE IF node.stmt = "while_stmt" THEN processWhileStatement(g, node, context)
  ELSE IF node.stmt = "return_stmt" THEN processReturnStatement(g, node, context)
  ELSE IF node.stmt = "continue_stmt" THEN processContinueStatement(g)
  ELSE IF node.stmt = "break_stmt" THEN processBreakStatement(g)
  ELSE g

processStatementList(g, nodes, context) ==
  IF nodes = <<>> THEN g
  ELSE IF Len(nodes) = 1 THEN processStatement(g, nodes[1], context)
  ELSE LET done == processStatementList(g, SubSeq(nodes, 1, Len(nodes) \div 2), context)
       IN IF ~Ok(done) THEN done
          ELSE processStatementList(done, SubSeq(nodes, Len(nodes) \div 2 + 1, Len(nodes)),
                                    context)

\* ---- functions and the program ----
RECURSIVE processParameterList(_, _, _)
processParameterList(g, nodes, funcName) ==
  IF nodes = <<>> THEN g
  ELSE LET declared == processParameterList(g, SubSeq(nodes, 1, Len(nodes) - 1), funcName)
       IN IF ~Ok(declared) THEN declared
          ELSE processParameter(declared, nodes[Len(nodes)], funcName)

InterruptFunctions ==
  {"interruptServer0", "interruptServer1", "interruptServer2", "interruptServer3",
   "interruptServer4"}

processFunctionDeclaration(g, node) ==
  LET funcName == node.name
      checked ==
        requireCondition(
          requireCondition(
            requireCondition(g, findFunction(g, funcName) = 0, "function redefined", funcName),
            funcName \in InterruptFunctions => node.retType = "void",
            "interrupt function must return void", funcName),
          funcName \in InterruptFunctions => node.params = <<>>,
          "interrupt function must have no parameters", funcName)
      entryLabel == label(g, <<funcName, "_entry">>)
      exitLabel == label(allocateLabel(g), <<funcName, "_exit">>)
      context == [entryLabel |-> entryLabel, exitLabel |-> exitLabel, functionName |-> funcName]
      open(h) ==
        IF Ok(h)
          THEN createInstruction(
                 [h EXCEPT !.functionPool =
                              Append(@, IntermediateFunction(funcName, node.retType, entryLabel,
                                                             exitLabel, h.GLOBAL_SCOPE_PATH))],
                 "set_label", EmptyString, EmptyString, entryLabel)
          ELSE h
      close(h) ==
        exitScope(
          createInstruction(
            IF Ok(h) /\ node.retType = "void"
                     /\ ~h.functionPool[findFunction(h, funcName)].hasReturnStatement
              THEN createInstruction(h, "return_void", EmptyString, EmptyString, exitLabel)
              ELSE h,
            "set_label", EmptyString, EmptyString, exitLabel))
  IN close(processStatementList(
             processLocalDeclarations(
               processParameterList(open(enterScope(allocateLabel(allocateLabel(checked)))),
                                    node.params, funcName),
               node.locals),
             node.stmts, context))

processDeclaration(g, node) ==
  IF ~Ok(g) THEN g
  ELSE IF node.decl = "var_decl" THEN processVariableDeclaration(g, node)
  ELSE processFunctionDeclaration(g, node)

RECURSIVE processDeclarationList(_, _)
processDeclarationList(g, nodes) ==
  IF nodes = <<>> THEN g
  ELSE LET declared == processDeclarationList(g, SubSeq(nodes, 1, Len(nodes) - 1))
       IN IF ~Ok(declared) THEN declared
          ELSE processDeclaration(declared, nodes[Len(nodes)])

processProgram(g, root) ==
  processDeclarationList(
    requireCondition(g, root.decls # <<>>, "the root has no children", ""), root.decls)

\* lines 115-128: the builtin __asm, whose parameter is not put in the pool
addAsmFunction(g) ==
  LET push(h) ==
        IF Ok(h)
          THEN [h EXCEPT !.functionPool =
                           Append(@, [IntermediateFunction("__asm", "void",
                                                           label(g, <<"__asm_entry">>),
                                                           label(allocateLabel(g), <<"__asm_exit">>),
                                                           h.GLOBAL_SCOPE_PATH)
                                        EXCEPT !.parameterList = <<variableId(g)>>,
                                               !.hasReturnStatement = TRUE])]
          ELSE h
  IN exitScope(push(allocateLabel(allocateLabel(allocateVariableId(enterScope(g))))))

performPostProcessing1(g) ==
  LET pool(func) ==
        SelectSeq(g.variablePool, LAMBDA v : isScopeContained(func.scopePath, v.scopePath))
      calls(func) ==
        SelectSeq(g.callsInScope, LAMBDA c : isScopeContained(func.scopePath, c.scopePath))
      fill(func) ==
        [func EXCEPT !.localVariables = [i \in DOMAIN pool(func) |-> idOf(pool(func)[i])],
                     !.childFunctions =
                        Dedup([i \in DOMAIN calls(func) |-> calls(func)[i].functionName])]
  IN IF Ok(g)
       THEN [g EXCEPT !.functionPool = [i \in DOMAIN g.functionPool |-> fill(g.functionPool[i])]]
       ELSE g

\* one registered checker closure, run on the final function pool; "TypeError"
\* when it reads a property of undefined
checker(g, check) ==
  LET f == findFunction(g, check.functionName)
      verdict(b) == IF b THEN "true" ELSE "false"
  IN IF check.check = "declared" THEN verdict(f # 0)
     ELSE IF f = 0 THEN "TypeError"
     ELSE IF check.check = "returnsVoid" THEN verdict(g.functionPool[f].returnType = "void")
     ELSE IF check.check = "returnsValue" THEN verdict(g.functionPool[f].returnType # "void")
     ELSE verdict(check.argc = Len(g.functionPool[f].parameterList))

RECURSIVE runPostChecks(_, _)
runPostChecks(g, i) ==
  IF ~Ok(g) \/ i > Len(g.postChecks) THEN g
  ELSE IF checker(g, g.postChecks[i]) = "TypeError" THEN typeError(g)
  ELSE runPostChecks(requireCondition(g, checker(g, g.postChecks[i]) = "true",
                                      g.postChecks[i].check, g.postChecks[i].functionName),
                     i + 1)

\* performPostCheck that does not look for main
performPostCheck_withoutMain(g) ==
  LET noReturn ==
        {i \in DOMAIN g.functionPool :
           /\ g.functionPool[i].returnType # "void"
           /\ ~g.functionPool[i].hasReturnStatement
           /\ ~Includes(g.functionPool[i].childFunctions, "__asm")}
  IN requireCondition(runPostChecks(g, 1), noReturn = {},
                      "function without return statement", "")

\* lines 819-837
performPostCheck(g) ==
  LET noReturn ==
        {i \in DOMAIN g.functionPool :
           /\ g.functionPool[i].returnType # "void"
           /\ ~g.functionPool[i].hasReturnStatement
           /\ ~Includes(g.functionPool[i].childFunctions, "__asm")}
  IN requireCondition(
       requireCondition(runPostChecks(g, 1), findFunction(g, "main") # 0, "no main function", ""),
       noReturn = {}, "function without return statement", "")

\* lines 842-859: a call of __asm and the '=string' before it become out_asm
performPostProcessing2(g) ==
  LET list == g.instructionList
      isAsm(i) == list[i].operation = "call" /\ list[i].operand1 = <<"__asm">>
      bad == {i \in DOMAIN list :
                isAsm(i) /\ (i = 1 \/ list[i - 1].operation # "=string"
                                   \/ list[i - 1].result # list[i].operand2)}
      folded == [i \in DOMAIN list |->
                   IF isAsm(i) THEN InstructionQuad("out_asm", list[i - 1].operand1,
                                                    EmptyString, EmptyString)
                   ELSE list[i]]
      kept == {i \in DOMAIN list : ~(i < Len(list) /\ isAsm(i + 1))}
      RECURSIVE pick(_)
      pick(i) == IF i > Len(list) THEN <<>>
                 ELSE (IF i \in kept THEN <<folded[i]>> ELSE <<>>) \o pick(i + 1)
  IN IF ~Ok(g) THEN g
     ELSE IF bad # {} THEN requireCondition(g, FALSE, "misplaced __asm call", "")
     ELSE [g EXCEPT !.instructionList = pick(1)]

\* ---- basic blocks ----
\* result.includes('entry') that finds 'entry' in every label
includesEntry_anyLabel(result) == result # <<>>

\* result.includes('entry'): the pieces of the labels of the model that hold
\* 'entry' are the ones appended to a function name
includesEntry(result) == \E i \in DOMAIN result : result[i] \in {"_entry", "__asm_entry"}

\* the index (0-based) of the first set_label of that result, or -1
findTargetIndex(list, result) ==
  LET s == {i \in DOMAIN list : list[i].operation = "set_label" /\ list[i].result = result}
  IN IF s = {} THEN -1 ELSE (CHOOSE i \in s : \A j \in s : i <= j) - 1

\* the loop of lines 868-895, from index i on
RECURSIVE scanLeaders(_, _, _, _)
scanLeaders(list, i, leaders, nextIsLeader) ==
  IF i >= Len(list) THEN leaders
  ELSE IF i = 0 THEN scanLeaders(list, i + 1, Append(leaders, i), nextIsLeader)
  ELSE IF At(list, i).operation = "set_label" /\ includesEntry(At(list, i).result)
    THEN scanLeaders(list, i + 1, Append(leaders, i), nextIsLeader)
  ELSE IF At(list, i).operation \in {"j", "j_false"}
    THEN scanLeaders(list, i + 1,
                     IF findTargetIndex(list, At(list, i).result) # -1
                       THEN Append(leaders, findTargetIndex(list, At(list, i).result))
                       ELSE leaders,
                     TRUE)
  ELSE IF nextIsLeader THEN scanLeaders(list, i + 1, Append(leaders, i), FALSE)
  ELSE scanLeaders(list, i + 1, leaders, nextIsLeader)

\* [...].sort((a, b) => a - b) on numbers without repetition
RECURSIVE sortNumbers(_)
sortNumbers(s) ==
  IF s = <<>> THEN <<>>
  ELSE LET least == CHOOSE i \in DOMAIN s : \A j \in DOMAIN s : s[i] <= s[j]
       IN <<s[least]>> \o sortNumbers(SelectSeq(s, LAMBDA x : x # s[least]))

\* uniqueLeaders without the sort
uniqueLeaders_unsorted(list) ==
  LET unique == Dedup(scanLeaders(list, 0, <<>>, FALSE))
  IN IF unique = <<>> \/ unique[Len(unique)] # Len(list) THEN Append(unique, Len(list)) ELSE unique

uniqueLeaders(list) ==
  LET unique == sortNumbers(Dedup(scanLeaders(list, 0, <<>>, FALSE)))
  IN IF unique = <<>> \/ unique[Len(unique)] # Len(list) THEN Append(unique, Len(list)) ELSE unique

\* list.slice(from, to)
slice(list, from, to) ==
  LET lo == IF from > Len(list) THEN Len(list) ELSE from
      hi == IF to > Len(list) THEN Len(list) ELSE to
  IN IF lo >= hi THEN <<>> ELSE SubSeq(list, lo + 1, hi)

generateBasicBlocks(g) ==
  IF Ok(g)
    THEN [g EXCEPT !.leaders = uniqueLeaders(g.instructionList),
                   !.basicBlocks =
                      [i \in 1..(Len(uniqueLeaders(g.instructionList)) - 1) |->
                         [blockId |-> i - 1,
                          instructions |-> slice(g.instructionList,
                                                 uniqueLeaders(g.instructionList)[i],
                                                 uniqueLeaders(g.instructionList)[i + 1])]]]
    ELSE g

\* new IntermediateCodeGenerator(root), with GLOBAL_SCOPE_PATH as it is when
\* the constructor is entered
IntermediateCodeGenerator(globalScopePath, root) ==
  generateBasicBlocks(
    performPostProcessing2(
      performPostCheck(
        performPostProcessing1(
          addAsmFunction(processProgram(NewGenerator(globalScopePath), root))))))

\* ---- the syntax trees of the model ----
\* What the productions of the grammar build, as far as the generator reads
\* it: the kind of a declaration or statement, the child sequence p that
\* matchesSequence tests, and the children by role.  A left-recursive list
\* (decl_list, param_list, local_decls, stmt_list, args) is the sequence of
\* its items.
VarDecl(type, name) ==
  [decl |-> "var_decl", p |-> <<"type_spec", "IDENTIFIER">>, type |-> type, name |-> name]
ArrDecl(type, name, len) ==
  [decl |-> "var_decl", p |-> <<"type_spec", "IDENTIFIER", "CONSTANT">>, type |-> type,
   name |-> name, len |-> len]
FunDecl(retType, name, params, locals, stmts) ==
  [decl |-> "fun_decl", retType |-> retType, name |-> name, params |-> params,
   locals |-> locals, stmts |-> stmts]
Local(type, name) == [p |-> <<"type_spec", "IDENTIFIER">>, type |-> type, name |-> name]

Id(name) == [p |-> <<"IDENTIFIER">>, name |-> name]
Const(value) == [p |-> <<"CONSTANT">>, value |-> value]
Str(value) == [p |-> <<"STRING_LITERAL">>, value |-> value]
Plus(left, right) == [p |-> <<"expr", "PLUS", "expr">>, left |-> left, right |-> right]
UnaryPlus(expr) == [p |-> <<"PLUS", "expr">>, expr |-> expr]
Elem(name, expr) == [p |-> <<"IDENTIFIER", "expr">>, name |-> name, expr |-> expr]
CallExpr(name, args) == [p |-> <<"IDENTIFIER", "args">>, name |-> name, args |-> args]

Assign(name, expr) ==
  [stmt |-> "expr_stmt", p |-> <<"IDENTIFIER", "ASSIGN", "expr">>, name |-> name, expr |-> expr]
AssignElem(name, index, expr) ==
  [stmt |-> "expr_stmt", p |-> <<"IDENTIFIER", "expr", "ASSIGN", "expr">>, name |-> name,
   index |-> index, expr |-> expr]
CallStmt(name, args) ==
  [stmt |-> "expr_stmt", p |-> <<"IDENTIFIER", "args">>, name |-> name, args |-> args]
If(expr, then) == [stmt |-> "if_stmt", expr |-> expr, then |-> then]
IfElse(expr, then, else) == [stmt |-> "if_stmt", expr |-> expr, then |-> then, else |-> else]
While(expr, body) == [stmt |-> "while_stmt", expr |-> expr, body |-> body]
Compound(locals, stmts) == [stmt |-> "compound_stmt", locals |-> locals, stmts |-> stmts]
ReturnVoid == [stmt |-> "return_stmt"]
ReturnExpr(expr) == [stmt |-> "return_stmt", expr |-> expr]
Break == [stmt |-> "break_stmt"]
Continue == [stmt |-> "continue_stmt"]

\* the sequences over s of length 0..n
RECURSIVE ListsUpTo(_, _)
ListsUpTo(s, n) ==
  IF n = 0 THEN {<<>>}
  ELSE ListsUpTo(s, n - 1) \cup {Append(l, e) : l \in {k \in ListsUpTo(s, n - 1) : Len(k) = n - 1}, e \in s}

\* int f(int y) { return y; } and int f(int x, int x) { return x; }
Helpers ==
  { <<>>,
    <<FunDecl("int", "f", <<Local("int", "y")>>, <<>>, <<ReturnExpr(Id("y"))>>)>>,
    <<FunDecl("int", "f", <<Local("int", "x"), Local("int", "x")>>, <<>>,
              <<ReturnExpr(Id("x"))>>)>> }

\* programs that differ in their declarations: global declarations, a helper
\* function, and void main(void) with local declarations and one assignment
DeclarationPrograms ==
  { [decls |-> globals \o helper \o <<FunDecl("void", "main", <<>>, locals, <<body>>)>>] :
      globals \in ListsUpTo({VarDecl("int", "x"), ArrDecl("int", "x", 2), VarDecl("int", "y")},
                            MaxDeclarations),
      helper \in Helpers,
      locals \in ListsUpTo({Local("int", "x"), Local("int", "y")}, MaxDeclarations),
      body \in {Assign("x", Const("1")), Assign("y", Const("1"))} }

Statements ==
  { Assign("x", Const("1")),
    Assign("x", Plus(Id("x"), Const("1"))),
    Assign("y", Id("x")),
    Assign("y", UnaryPlus(UnaryPlus(Id("x")))),
    AssignElem("a", Const("0"), Id("y")),
    Assign("y", Elem("a", Const("0"))),
    CallStmt("f", <<Id("x")>>),
    Assign("y", CallExpr("f", <<Const("1")>>)),
    ReturnVoid,
    Break,
    Continue,
    If(Id("x"), Assign("y", Const("1"))),
    IfElse(Const("1"), Assign("x", Const("1")), Assign("y", Const("1"))),
    IfElse(Const("1"), Break, Continue),
    While(Const("1"), Break),
    While(Id("x"), Assign("x", Const("1"))),
    While(Const("1"), If(Const("1"), Continue)),
    While(Const("1"), While(Const("1"), Break)),
    Compound(<<Local("int", "x")>>, <<Assign("x", Const("1"))>>),
    Compound(<<Local("int", "x")>>, <<Assign("y", Id("x"))>>) }

\* programs that differ in their statements: int x; int a[2];
\* int f(int y) { return y; } void main(void) { int y; ... }
StatementPrograms ==
  { [decls |-> <<VarDecl("int", "x"), ArrDecl("int", "a", 2),
                 FunDecl("int", "f", <<Local("int", "y")>>, <<>>, <<ReturnExpr(Id("y"))>>),
                 FunDecl("void", "main", <<>>, <<Local("int", "y")>>, stmts)>>] :
      stmts \in ListsUpTo(Statements, MaxStatements) \ {<<>>} }

\* void interruptServer0(void) { x = 1; } and int interruptServer1(void)
\* { return x; } before main
InterruptPrograms ==
  { [decls |-> <<VarDecl("int", "x"), handler,
                 FunDecl("void", "main", <<>>, <<>>, <<Assign("x", Const("1"))>>)>>] :
      handler \in {FunDecl("void", "interruptServer0", <<>>, <<>>, <<Assign("x", Const("1"))>>),
                   FunDecl("int", "interruptServer1", <<>>, <<>>, <<ReturnExpr(Id("x"))>>)} }

\* the statement, count times
Repeat(stmt, count) == [k \in 1..count |-> stmt]

\* programs whose function g needs more registers than it may use: int x;
\* void g(void) { int y; first; y = 1; ... y = 1; last; } void main(void) { g(); }
RegisterPrograms ==
  { [decls |-> <<VarDecl("int", "x"),
                 FunDecl("void", "g", <<>>, <<Local("int", "y")>>,
                         first \o Repeat(Assign("y", Const("1")), fillers) \o <<last>>),
                 FunDecl("void", "main", <<>>, <<>>, <<CallStmt("g", <<>>)>>)>>] :
      first \in {<<Assign("x", Const("1"))>>,
                 <<Assign("x", Const("1")), Assign("x", Const("2"))>>},
      fillers \in {MaxFillers - 1, MaxFillers},
      last \in {Assign("y", Id("x")),
                Assign("y", Plus(Id("x"), Const("1"))),
                If(Id("y"), Assign("y", Id("x")))} }

\* the names of the locals of a function with many locals
LocalNames == <<"l1", "l2", "l3", "l4", "l5", "l6", "l7", "l8", "l9", "l10", "l11", "l12", "l13">>

\* programs that differ in the stack frame of g: int x; int f(int y) { return y; }
\* void g(void) { int l1; ... ; x = 1; or f(1); } void main(void) { g(); }
FramePrograms ==
  { [decls |-> <<VarDecl("int", "x"),
                 FunDecl("int", "f", <<Local("int", "y")>>, <<>>, <<ReturnExpr(Id("y"))>>),
                 FunDecl("void", "g", <<>>, [k \in 1..count |-> Local("int", LocalNames[k])],
                         <<stmt>>),
                 FunDecl("void", "main", <<>>, <<>>, <<CallStmt("g", <<>>)>>)>>] :
      count \in {1, MaxLocals - 1, MaxLocals},
      stmt \in {Assign("x", Const("1")), CallStmt("f", <<Const("1")>>)} }

\* programs that differ in what the post-checks see: int x; a function g
\* that returns int or void and whose body is one statement; main or none
PostCheckPrograms ==
  { [decls |-> <<VarDecl("int", "x"), FunDecl(retType, "g", <<>>, <<>>, <<stmt>>)>> \o rest] :
      retType \in {"int", "void"},
      stmt \in {Assign("x", Const("1")), ReturnVoid, ReturnExpr(Const("1")),
                CallStmt("__asm", <<Str("\"nop\"")>>), CallStmt("h", <<>>),
                CallStmt("g", <<Const("1")>>)},
      rest \in {<<>>, <<FunDecl("void", "main", <<>>, <<>>, <<Assign("x", Const("1"))>>)>>} }

Programs ==
  DeclarationPrograms \cup StatementPrograms \cup InterruptPrograms \cup RegisterPrograms
    \cup FramePrograms \cup PostCheckPrograms

\* ---- compilations in one process ----
IrInit ==
  /\ AutoIdle(<<>>, "idle", NewAutomaton)
  /\ LexIdle(<<>>)
  /\ ParseIdle(<<>>, [symbols |-> <<>>], FALSE, "idle", MAX_ITERATIONS)
  /\ IrIdle(<<0>>)
  /\ CgIdle
  /\ DrvIdle("idle")
  /\ PeepIdle(<<>>)

\* new IntermediateCodeGenerator(root): the whole constructor, which leaves
\* the module-level array as its pushes and pops left it
Construct ==
  /\ irPc = "idle"
  /\ compilations < MaxCompilations
  /\ \E root \in Programs :
       \E g \in {IntermediateCodeGenerator(GLOBAL_SCOPE_PATH, root)} :
         /\ program' = root
         /\ generator' = g
         /\ GLOBAL_SCOPE_PATH' = g.GLOBAL_SCOPE_PATH
         /\ irPc' = IF Ok(g) THEN "constructed" ELSE "thrown"
  /\ compilations' = compilations + 1
  /\ UNCHANGED <<autoVars, lexVars, parseVars, cgVars, peepVars, drvVars>>

\* the caller returns: the generator and the tree are no longer referenced
Release ==
  /\ irPc \in {"constructed", "thrown"}
  /\ program' = Undefined
  /\ generator' = Undefined
  /\ irPc' = "idle"
  /\ assembler' = Undefined
  /\ cgPc' = "idle"
  /\ cgBlockIndex' = 0
  /\ cgIrIndex' = 0
  /\ UNCHANGED <<GLOBAL_SCOPE_PATH, compilations>>
  /\ UNCHANGED <<autoVars, lexVars, parseVars, peepVars, drvVars>>

IrNext == Construct \/ Release

(***************************************************************************)
(* AssemblyCodeGenerator.ts: the assembly text and peepholeOptimize.       *)
(*                                                                         *)
(* A line of assembly is a JavaScript string; the model writes it as the   *)
(* tuple of the pieces its template concatenates: the mnemonic, a blank    *)
(* " ", a comma ",", a tab, a register name, a number, a parenthesis.  A   *)
(* blank, a comma and a tab are always pieces of their own, so the regular *)
(* expressions of split see every separator.                               *)
(***************************************************************************)

\* \s in the lines the generator writes
IsBlank(piece) == piece \in {" ", "\t"}

\* op a / op a, b / op a, b, c as the template strings put them together
Asm0(op) == <<op>>
Asm1(op, a) == <<op, " ">> \o a
Asm2(op, a, b) == <<op, " ">> \o a \o <<",", " ">> \o b
Asm3(op, a, b, c) == <<op, " ">> \o a \o <<",", " ">> \o b \o <<",", " ">> \o c

\* String.prototype.trim
RECURSIVE trimStart(_)
trimStart(line) ==
  IF line # <<>> /\ IsBlank(Head(line)) THEN trimStart(Tail(line)) ELSE line

RECURSIVE trimEnd(_)
trimEnd(line) ==
  IF line # <<>> /\ IsBlank(line[Len(line)])
  THEN trimEnd(SubSeq(line, 1, Len(line) - 1))
  ELSE line

trim(line) == trimEnd(trimStart(line))

\* line.split(/\,\s|\s/): a comma with a blank after it, or a blank, ends an
\* element; a comma without a blank after it stays in its element
RECURSIVE splitCommaBlank(_, _, _, _)
splitCommaBlank(line, i, current, elements) ==
  IF i > Len(line) THEN Append(elements, current)
  ELSE IF line[i] = "," /\ i < Len(line) /\ IsBlank(line[i + 1])
       THEN splitCommaBlank(line, i + 2, <<>>, Append(elements, current))
  ELSE IF IsBlank(line[i])
       THEN splitCommaBlank(line, i + 1, <<>>, Append(elements, current))
  ELSE splitCommaBlank(line, i + 1, Append(current, line[i]), elements)

\* line.split(/\,|\s/): every comma and every blank ends an element, so that
\* "a, b" has an empty element between a and b
RECURSIVE splitCommaOrBlank(_, _, _, _)
splitCommaOrBlank(line, i, current, elements) ==
  IF i > Len(line) THEN Append(elements, current)
  ELSE IF line[i] = "," \/ IsBlank(line[i])
       THEN splitCommaOrBlank(line, i + 1, <<>>, Append(elements, current))
  ELSE splitCommaOrBlank(line, i + 1, Append(current, line[i]), elements)

\* elements[i] (from 0) of a split: <<e>>, or <<>> for undefined
Element(elements, i) ==
  IF i + 1 <= Len(elements) THEN <<elements[i + 1]>> ELSE <<>>

\* the first place from i on where the pieces of pattern occur in line, 0 if
\* none
RECURSIVE indexOfPieces(_, _, _)
indexOfPieces(line, pattern, i) ==
  IF i + Len(pattern) - 1 > Len(line) THEN 0
  ELSE IF SubSeq(line, i, i + Len(pattern) - 1) = pattern THEN i
  ELSE indexOfPieces(line, pattern, i + 1)

\* line.replace(pattern, replacement) with strings: the first occurrence
\* only.  An undefined argument is converted to the text 'undefined', which
\* no line of the model holds.
replace(line, pattern, replacement) ==
  IF pattern = <<>> THEN line
  ELSE LET at(i) ==
             IF i = 0 THEN line
             ELSE SubSeq(line, 1, i - 1)
                  \o (IF replacement = <<>> THEN <<"undefined">>
                      ELSE replacement[1])
                  \o SubSeq(line, i + Len(pattern[1]), Len(line))
       IN at(indexOfPieces(line, pattern[1], 1))

\* Array.pop
pop(list) == IF list = <<>> THEN <<>> ELSE SubSeq(list, 1, Len(list) - 1)

\* lines 1249-1269: the pass over the lines from index (from 0) on
RECURSIVE peepholeLoop(_, _, _)
peepholeLoop(asm, index, newAsm) ==
  IF ~(index < Len(asm)) THEN newAsm
  ELSE LET asmElementsThisLine == splitCommaBlank(trim(asm[index + 1]), 1, <<>>, <<>>)
           asmElementsLastLine == splitCommaOrBlank(trim(asm[index]), 1, <<>>, <<>>)
           srcRegThisLine == Element(asmElementsThisLine, 2)
           dstRegLastLine == Element(asmElementsLastLine, 1)
           dstRegThisLine == Element(asmElementsThisLine, 1)
           rewritten(newLastLine) ==
             LET newElements == splitCommaBlank(trim(newLastLine), 1, <<>>, <<>>)
             IN IF /\ Element(newElements, 0) = <<<<"move">>>>
                   /\ Element(newElements, 1) = Element(newElements, 2)
                THEN pop(newAsm)
                ELSE Append(pop(newAsm), newLastLine)
       IN IF /\ Element(asmElementsThisLine, 0) = <<<<"move">>>>
             /\ index > 0
             /\ Element(asmElementsLastLine, 0) \notin {<<<<"nop">>>>, <<<<"sw">>>>}
          THEN IF srcRegThisLine = dstRegLastLine
               THEN peepholeLoop(asm, index + 1,
                      rewritten(replace(asm[index], dstRegLastLine, dstRegThisLine)))
               ELSE peepholeLoop(asm, index + 1, Append(newAsm, asm[index + 1]))
          ELSE peepholeLoop(asm, index + 1, Append(newAsm, asm[index + 1]))

\* lines 1246-1271; this._asm[0] of an empty list is undefined, and the
\* generator's list starts with '.data'
peepholeOptimize(asm) ==
  IF asm = <<>> THEN <<<<"undefined">>>>
  ELSE peepholeLoop(asm, 1, <<asm[1]>>)

(***************************************************************************)
(* AssemblyCodeGenerator.ts: the code generator.                           *)
(*                                                                         *)
(* A generator object is a record a: ir is the intermediate code it was    *)
(* built from, asm its lines, registerDescriptors, addressDescriptors and  *)
(* stackFrameInfos its Maps in insertion order, a Set being the sequence   *)
(* of its members in insertion order; currentFunc and currentFrameInfo are *)
(* the locals of processTextSegment; ret is the value the last allocateReg *)
(* or getRegs returned; thrown the CompilerError thrown, if any.  A        *)
(* register, a memory location and a variable id are strings, written as   *)
(* tuples of pieces like the operands of a quadruple.                      *)
(***************************************************************************)
\* part_001 lines 53-56
USEFUL_REGISTERS ==
  << <<"$t0">>, <<"$t1">>, <<"$t2">>, <<"$t3">>, <<"$t4">>, <<"$t5">>, <<"$t6">>, <<"$t7">>,
     <<"$t8">>, <<"$t9">>,
     <<"$s0">>, <<"$s1">>, <<"$s2">>, <<"$s3">>, <<"$s4">>, <<"$s5">>, <<"$s6">>, <<"$s7">> >>

\* an undefined string (an argument that was not passed, a boundMemAddress
\* that was not set); no string of the model is the text 'undefined'
UndefinedString == <<"undefined">>

\* addr[0] == '$'
startsWithDollar(addr) ==
  /\ addr # <<>>
  /\ addr[1] \in {"$v0", "$v1", "$a0", "$a1", "$a2", "$a3", "$sp", "$ra", "$zero", "$0"}
                 \cup {USEFUL_REGISTERS[i][1] : i \in DOMAIN USEFUL_REGISTERS}

\* `$a${index}` and `$s${index}`
ArgumentRegister(index) == <<At(<<"$a0", "$a1", "$a2", "$a3">>, index)>>
SavedRegister(index) ==
  <<At(<<"$s0", "$s1", "$s2", "$s3", "$s4", "$s5", "$s6", "$s7">>, index)>>

\* `${4 * words}($sp)`
StackSlot(words) == <<ToString(4 * words), "(", "$sp", ")">>

\* Set.add, Set.delete
setAdd(set, x) == IF Includes(set, x) THEN set ELSE Append(set, x)
setDelete(set, x) == SelectSeq(set, LAMBDA y : y # x)

\* Map.delete is not used; Map.get(k)?.f with a default
AddressDescriptor(boundMemAddress, currentAddresses) ==
  [boundMemAddress |-> boundMemAddress, currentAddresses |-> currentAddresses]

RegisterDescriptor(usable, variables) == [usable |-> usable, variables |-> variables]

\* this._addressDescriptors.get(varId)?.currentAddresses, <<>> for undefined
currentAddressesOf(a, varId) ==
  IF MapHas(a.addressDescriptors, varId)
    THEN MapGet(a.addressDescriptors, varId).currentAddresses
    ELSE <<>>

\* this._addressDescriptors.get(varId)?.boundMemAddress
boundMemAddressOf(a, varId) ==
  IF MapHas(a.addressDescriptors, varId)
    THEN MapGet(a.addressDescriptors, varId).boundMemAddress
    ELSE UndefinedString

\* this._registerDescriptors.get(register)?.variables.has(varId)
registerHolds(a, register, varId) ==
  /\ MapHas(a.registerDescriptors, register)
  /\ Includes(MapGet(a.registerDescriptors, register).variables, varId)

\* this._registerDescriptors.get(register)?.variables becomes variables
setRegisterVariables(a, register, variables) ==
  IF MapHas(a.registerDescriptors, register)
    THEN [a EXCEPT !.registerDescriptors =
                      MapSet(@, register,
                             RegisterDescriptor(MapGet(a.registerDescriptors, register).usable,
                                                variables))]
    ELSE a

\* this._addressDescriptors.get(varId)?.currentAddresses becomes addresses
setCurrentAddresses(a, varId, addresses) ==
  IF MapHas(a.addressDescriptors, varId)
    THEN [a EXCEPT !.addressDescriptors =
                      MapSet(@, varId,
                             AddressDescriptor(boundMemAddressOf(a, varId), addresses))]
    ELSE a

\* lines 116-118
newAsm(a, line) == IF Ok(a) THEN [a EXCEPT !.asm = Append(@, line)] ELSE a

\* the value returned by allocateReg or getRegs
setReturned(a, value) == IF Ok(a) THEN [a EXCEPT !.ret = value] ELSE a

\* loadVar that leaves out the two nops after its lw
loadVar_withoutNops(a, varId, register) ==
  IF ~Ok(a) \/ boundMemAddressOf(a, varId) = UndefinedString THEN a
  ELSE LET fetched(b) ==
             setCurrentAddresses(b, varId, setAdd(currentAddressesOf(b, varId), register))
       IN fetched(setRegisterVariables(
                   newAsm(a, Asm2("lw", register, boundMemAddressOf(a, varId))),
                   register, <<varId>>))

\* lines 55-81
loadVar(a, varId, register) ==
  IF ~Ok(a) THEN a
  ELSE IF boundMemAddressOf(a, varId) = UndefinedString
    THEN setRegisterVariables(
           IF ~MapHas(a.addressDescriptors, varId)
             THEN [a EXCEPT !.addressDescriptors =
                              MapSet(@, varId, AddressDescriptor(UndefinedString, <<register>>))]
             ELSE setCurrentAddresses(a, varId, setAdd(currentAddressesOf(a, varId), register)),
           register, <<varId>>)
  ELSE LET fetched(b) ==
             setCurrentAddresses(b, varId, setAdd(currentAddressesOf(b, varId), register))
       IN fetched(setRegisterVariables(
                   newAsm(newAsm(newAsm(a, Asm2("lw", register, boundMemAddressOf(a, varId))),
                                 Asm0("nop")),
                          Asm0("nop")),
                   register, <<varId>>))

\* lines 86-104
storeVar(a, varId, register) ==
  IF ~Ok(a) THEN a
  ELSE IF boundMemAddressOf(a, varId) = UndefinedString
    THEN IF ~MapHas(a.addressDescriptors, varId)
           THEN [a EXCEPT !.addressDescriptors =
                            MapSet(@, varId, AddressDescriptor(UndefinedString, <<register>>))]
           ELSE setCurrentAddresses(a, varId, setAdd(currentAddressesOf(a, varId), register))
  ELSE setCurrentAddresses(newAsm(a, Asm2("sw", register, boundMemAddressOf(a, varId))),
                           varId,
                           setAdd(currentAddressesOf(a, varId), boundMemAddressOf(a, varId)))

\* ---- allocateReg, lines 252-369 ----
\* the first address of a Set that is a register, '' if there is none
RECURSIVE firstRegister(_)
firstRegister(addresses) ==
  IF addresses = <<>> THEN EmptyString
  ELSE IF startsWithDollar(Head(addresses)) THEN Head(addresses)
  ELSE firstRegister(Tail(addresses))

\* lines 273-278: the first register that is usable and holds nothing
RECURSIVE firstFreeRegister(_)
firstFreeRegister(descriptors) ==
  IF descriptors = <<>> THEN EmptyString
  ELSE IF Head(descriptors).value.variables = <<>> /\ Head(descriptors).value.usable
    THEN Head(descriptors).key
  ELSE firstFreeRegister(Tail(descriptors))

\* tempIR.result.endsWith('_exit')
endsWithExit(result) == result # <<>> /\ result[Len(result)] \in {"_exit", "__asm_exit"}

\* lines 301-317: whether a quadruple after irIndex in the block names
\* currentVar, up to the label that ends the procedure; tempIndex counts from 0
RECURSIVE reused(_, _, _)
reused(instructions, tempIndex, currentVar) ==
  IF ~(tempIndex < Len(instructions)) THEN FALSE
  ELSE LET tempIR == At(instructions, tempIndex)
       IN IF \/ tempIR.operand1 = currentVar
             \/ tempIR.operand2 = currentVar
             \/ tempIR.result = currentVar
            THEN TRUE
          ELSE IF tempIR.operation = "set_label" /\ endsWithExit(tempIR.result) THEN FALSE
          ELSE reused(instructions, tempIndex + 1, currentVar)

\* a score: Infinity, or a number of store instructions
Score(infinite, stores) == [infinite |-> infinite, stores |-> stores]

\* lines 296-334: what one variable held by a register adds to its score
variableScore(a, instructions, irIndex, currentVar, otherArg, res) ==
  IF currentVar = res /\ currentVar # otherArg THEN Score(FALSE, 0)
  ELSE IF ~reused(instructions, irIndex + 1, currentVar) THEN Score(FALSE, 0)
  ELSE IF boundMemAddressOf(a, currentVar) # UndefinedString
    THEN IF Len(currentAddressesOf(a, currentVar)) > 1 THEN Score(FALSE, 0) ELSE Score(FALSE, 1)
  ELSE Score(TRUE, 0)

\* lines 287-336: the score of a register
RECURSIVE variablesScore(_, _, _, _, _, _)
variablesScore(a, instructions, irIndex, variables, otherArg, res) ==
  IF variables = <<>> THEN Score(FALSE, 0)
  ELSE LET first == variableScore(a, instructions, irIndex, Head(variables), otherArg, res)
           rest == variablesScore(a, instructions, irIndex, Tail(variables), otherArg, res)
       IN Score(first.infinite \/ rest.infinite, first.stores + rest.stores)

registerScore(a, instructions, irIndex, descriptor, otherArg, res) ==
  IF ~descriptor.usable THEN Score(TRUE, 0)
  ELSE variablesScore(a, instructions, irIndex, descriptor.variables, otherArg, res)

\* lines 337-344: the first register of the least score, '' if every score is
\* Infinity; scores[i] is the score of the i-th register
minKey(descriptors, scores) ==
  LET finite == {i \in DOMAIN scores : ~scores[i].infinite}
      least == {i \in finite : \A j \in finite : scores[i].stores <= scores[j].stores}
  IN IF finite = {} THEN EmptyString
     ELSE descriptors[CHOOSE i \in least : \A j \in least : i <= j].key

\* lines 349-361: the variables of finalReg with no copy in memory are stored
\* and leave the register
RECURSIVE storeBack(_, _, _)
storeBack(a, variables, finalReg) ==
  IF variables = <<>> \/ ~Ok(a) THEN a
  ELSE LET varID == Head(variables)
           checked ==
             requireCondition(
               requireCondition(a, MapHas(a.addressDescriptors, varID),
                                "Undefined address descriptor", varID),
               boundMemAddressOf(a, varID) # UndefinedString, "Undefined bound address", varID)
           stored(b) ==
             setCurrentAddresses(
               setRegisterVariables(b, finalReg,
                                    setDelete(MapGet(b.registerDescriptors, finalReg).variables,
                                              varID)),
               varID, setDelete(currentAddressesOf(b, varID), finalReg))
       IN IF ~Ok(checked) THEN checked
          ELSE IF ~Includes(currentAddressesOf(a, varID), boundMemAddressOf(a, varID))
            THEN storeBack(stored(storeVar(a, varID, finalReg)), Tail(variables), finalReg)
          ELSE storeBack(a, Tail(variables), finalReg)

allocateReg(a, blockIndex, irIndex, thisArg, otherArg, res) ==
  LET descriptors == a.registerDescriptors
      instructions == At(a.ir.basicBlocks, blockIndex).instructions
      scores == [i \in DOMAIN descriptors |->
                   registerScore(a, instructions, irIndex, descriptors[i].value, otherArg, res)]
      replaced(finalReg, minScore) ==
        IF finalReg = EmptyString
          THEN requireCondition(a, FALSE, "Cannot find a register to replace.", thisArg)
        ELSE IF minScore > 0
          THEN setReturned(storeBack(a, MapGet(descriptors, finalReg).variables, finalReg),
                           finalReg)
        ELSE setReturned(a, finalReg)
      scoreOf(finalReg) ==
        IF finalReg = EmptyString THEN 0
        ELSE scores[CHOOSE i \in DOMAIN descriptors : descriptors[i].key = finalReg].stores
  IN IF ~Ok(a) THEN a
     ELSE IF firstRegister(currentAddressesOf(a, thisArg)) # EmptyString
       THEN setReturned(a, firstRegister(currentAddressesOf(a, thisArg)))
     ELSE IF firstFreeRegister(descriptors) # EmptyString
       THEN setReturned(a, firstFreeRegister(descriptors))
     ELSE replaced(minKey(descriptors, scores), scoreOf(minKey(descriptors, scores)))

\* ---- getRegs, lines 151-248 ----
\* allocateReg for an operand, and loadVar unless the register holds it
operandRegister(a, blockIndex, irIndex, thisArg, otherArg, res) ==
  LET fetched(b) == IF Ok(b) /\ ~registerHolds(b, b.ret, thisArg)
                     THEN loadVar(b, thisArg, b.ret)
                     ELSE b
  IN fetched(allocateReg(a, blockIndex, irIndex, thisArg, otherArg, res))

\* regs = [first register, the one the next call returned]
pairReturned(a, first) == setReturned(a, <<first, a.ret>>)

\* regs = [regY, regZ, the one the next call returned]
tripleReturned(a, regs) == setReturned(a, <<regs[1], regs[2], a.ret>>)

\* lines 205-213: regZ for the index, fetched, then regX for the result
secondOfArray(a, operand2, result, blockIndex, irIndex) ==
  LET second(b) ==
        IF Ok(b)
          THEN pairReturned(allocateReg(b, blockIndex, irIndex, result,
                                        UndefinedString, UndefinedString),
                            b.ret)
          ELSE b
  IN second(operandRegister(a, blockIndex, irIndex, operand2, UndefinedString, UndefinedString))

getRegs(a, ir, blockIndex, irIndex) ==
  LET operation == ir.operation
      operand1 == ir.operand1
      operand2 == ir.operand2
      result == ir.result
      binaryOp == operand1 # EmptyString /\ operand2 # EmptyString
      unaryOp == (operand1 # EmptyString) # (operand2 # EmptyString)
      \* regY and regZ, both fetched
      both(otherOfFirst, otherOfSecond, res) ==
        LET second(b) ==
              pairReturned(operandRegister(b, blockIndex, irIndex, operand2, otherOfSecond, res),
                           b.ret)
        IN second(operandRegister(a, blockIndex, irIndex, operand1, otherOfFirst, res))
      \* regX after [regY, regZ]
      third(b) ==
        IF ~Ok(b) THEN b
        ELSE IF result = operand1 THEN setReturned(b, <<b.ret[1], b.ret[2], b.ret[1]>>)
        ELSE IF result = operand2 THEN setReturned(b, <<b.ret[1], b.ret[2], b.ret[2]>>)
        ELSE tripleReturned(allocateReg(b, blockIndex, irIndex, result,
                                        UndefinedString, UndefinedString),
                            b.ret)
      \* regX after regY
      secondOfUnary(b) ==
        IF ~Ok(b) THEN b
        ELSE IF result = operand1 THEN setReturned(b, <<b.ret, b.ret>>)
        ELSE pairReturned(allocateReg(b, blockIndex, irIndex, result,
                                      UndefinedString, UndefinedString),
                          b.ret)
      single(b) == setReturned(b, <<b.ret>>)
      twice(b) == setReturned(b, <<b.ret, b.ret>>)
  IN IF ~Ok(a) THEN a
     ELSE IF operation \in {"=$", "=[]"}
       THEN both(UndefinedString, UndefinedString, UndefinedString)
     ELSE IF operation \in {"=const", "call"}
       THEN single(allocateReg(a, blockIndex, irIndex, result, UndefinedString, UndefinedString))
     ELSE IF operation = "j_false"
       THEN single(operandRegister(a, blockIndex, irIndex, operand1,
                                   UndefinedString, UndefinedString))
     ELSE IF operation = "=var"
       THEN twice(operandRegister(a, blockIndex, irIndex, operand1, UndefinedString, result))
     ELSE IF operation = "[]"
       THEN secondOfArray(a, operand2, result, blockIndex, irIndex)
     ELSE IF binaryOp THEN third(both(operand2, operand1, result))
     ELSE IF unaryOp
       THEN secondOfUnary(operandRegister(a, blockIndex, irIndex, operand1,
                                          UndefinedString, result))
     ELSE requireCondition(a, FALSE, "Illegal op.", operation)

\* ---- stack frames, lines 376-478 ----
\* the entry of the variable pool with the id
poolEntry(ir, id) ==
  ir.variablePool[CHOOSE i \in DOMAIN ir.variablePool : idOf(ir.variablePool[i]) = id]

max(x, y) == IF x > y THEN x ELSE y

\* lines 381-387
RECURSIVE maxArgs(_, _, _)
maxArgs(functionPool, childFunctions, i) ==
  IF i > Len(functionPool) THEN 0
  ELSE IF Includes(childFunctions, functionPool[i].functionName)
    THEN max(Len(functionPool[i].parameterList), maxArgs(functionPool, childFunctions, i + 1))
  ELSE maxArgs(functionPool, childFunctions, i + 1)

\* lines 389-403: the words of the local variables that are not parameters
RECURSIVE localData(_, _, _)
localData(ir, outer, i) ==
  IF i > Len(outer.localVariables) THEN 0
  ELSE LET localVar == poolEntry(ir, outer.localVariables[i])
       IN (IF Includes(outer.parameterList, outer.localVariables[i]) THEN 0
           ELSE IF localVar.kind = "variable" THEN 1
           ELSE localVar.length)
          + localData(ir, outer, i + 1)

\* lines 378-416, for one function
StackFrameInfo(ir, outer) ==
  LET isLeaf == outer.childFunctions = <<>>
      outgoingSlots == IF isLeaf THEN 0 ELSE max(maxArgs(ir.functionPool, outer.childFunctions, 1), 4)
      words == localData(ir, outer, 1)
      numGPRs2Save == IF outer.functionName = "main" THEN 0
                      ELSE IF words > 10 THEN (IF words > 18 THEN 8 ELSE words - 8)
                      ELSE 0
      wordSize == (IF isLeaf THEN 0 ELSE 1) + words + numGPRs2Save + outgoingSlots + numGPRs2Save
  IN [isLeaf |-> isLeaf,
      wordSize |-> IF wordSize % 2 # 0 THEN wordSize + 1 ELSE wordSize,
      outgoingSlots |-> outgoingSlots,
      localData |-> words,
      numGPRs2Save |-> numGPRs2Save,
      numReturnAdd |-> IF isLeaf THEN 0 ELSE 1]

RECURSIVE calcFrameInfoFrom(_, _)
calcFrameInfoFrom(a, i) ==
  IF i > Len(a.ir.functionPool) THEN a
  ELSE calcFrameInfoFrom(
         [a EXCEPT !.stackFrameInfos =
                      MapSet(@, a.ir.functionPool[i].functionName,
                             StackFrameInfo(a.ir, a.ir.functionPool[i]))],
         i + 1)

calcFrameInfo(a) == calcFrameInfoFrom(a, 1)

\* lines 483-500
RECURSIVE allocateGlobalMemoryFrom(_, _)
allocateGlobalMemoryFrom(a, i) ==
  IF i > Len(a.ir.variablePool) \/ ~Ok(a) THEN a
  ELSE LET globalVar == a.ir.variablePool[i]
           name == nameOf(globalVar)
       IN IF ~areScopesEqual(globalVar.scopePath, a.ir.GLOBAL_SCOPE_PATH)
            THEN allocateGlobalMemoryFrom(a, i + 1)
          ELSE allocateGlobalMemoryFrom(
                 [a EXCEPT !.addressDescriptors =
                              MapSet(@, idOf(globalVar),
                                     AddressDescriptor(
                                       IF globalVar.kind = "variable"
                                         THEN <<name, "(", "$0", ")">>
                                         ELSE <<name>>,
                                       << <<name>> >>))],
                 i + 1)

allocateGlobalMemory(a) == allocateGlobalMemoryFrom(a, 1)

\* lines 426-439: the parameters, index from 0
RECURSIVE allocateParameters(_, _, _, _)
allocateParameters(a, func, frameInfo, index) ==
  IF ~(index < Len(func.parameterList)) \/ ~Ok(a) THEN a
  ELSE LET memLoc == StackSlot(frameInfo.wordSize + index)
           saved == IF index < 4
                      THEN newAsm(a, Asm2("sw", ArgumentRegister(index), memLoc))
                      ELSE a
       IN allocateParameters(
            [saved EXCEPT !.addressDescriptors =
                            MapSet(@, At(func.parameterList, index),
                                   AddressDescriptor(memLoc, <<memLoc>>))],
            func, frameInfo, index + 1)

\* lines 441-466: the local variables, i from 1
RECURSIVE allocateLocals(_, _, _, _, _)
allocateLocals(a, func, frameInfo, i, remainingLVSlots) ==
  IF i > Len(func.localVariables) \/ ~Ok(a) THEN a
  ELSE LET id == func.localVariables[i]
           memLoc == StackSlot(frameInfo.wordSize - (IF frameInfo.isLeaf THEN 0 ELSE 1)
                               - frameInfo.numGPRs2Save - remainingLVSlots)
       IN IF Includes(func.parameterList, id)
            THEN allocateLocals(a, func, frameInfo, i + 1, remainingLVSlots)
          ELSE IF poolEntry(a.ir, id).kind = "variable"
            THEN allocateLocals(
                   [a EXCEPT !.addressDescriptors =
                                MapSet(@, id, AddressDescriptor(memLoc, <<memLoc>>))],
                   func, frameInfo, i + 1, remainingLVSlots - 1)
          ELSE requireCondition(a, FALSE, "Arrays are only supported as global variables!", id)

\* lines 468-475: $s0 to $s7, index from 0
RECURSIVE allocateSaved(_, _, _)
allocateSaved(a, availableRSs, index) ==
  IF ~(index < 8) \/ ~Ok(a) THEN a
  ELSE allocateSaved(
         [a EXCEPT !.registerDescriptors =
                      MapSet(@, SavedRegister(index),
                             RegisterDescriptor(index < availableRSs, <<>>))],
         availableRSs, index + 1)

allocateProcMemory(a, func) ==
  LET frameInfo == MapGet(a.stackFrameInfos, func.functionName)
  IN IF ~Ok(a) THEN a
     ELSE IF ~MapHas(a.stackFrameInfos, func.functionName)
       THEN requireCondition(a, FALSE, "Function name not in the pool", func.functionName)
     ELSE allocateGlobalMemory(
            allocateSaved(
              allocateLocals(allocateParameters(a, func, frameInfo, 0),
                             func, frameInfo, 1, frameInfo.localData),
              IF func.functionName = "main" THEN 8 ELSE frameInfo.numGPRs2Save, 0))

\* ---- descriptors at the end of a block or procedure, lines 505-592 ----
\* lines 506-524 and 536-554: the variables whose memory is stale are stored
\* from the first register that holds them
RECURSIVE writeBack(_, _)
writeBack(a, i) ==
  IF i > Len(a.addressDescriptors) \/ ~Ok(a) THEN a
  ELSE LET varId == a.addressDescriptors[i].key
           descriptor == a.addressDescriptors[i].value
       IN IF /\ descriptor.boundMemAddress # UndefinedString
             /\ ~Includes(descriptor.currentAddresses, descriptor.boundMemAddress)
             /\ firstRegister(descriptor.currentAddresses) # EmptyString
            THEN writeBack(storeVar(a, varId, firstRegister(descriptor.currentAddresses)), i + 1)
            ELSE writeBack(a, i + 1)

\* pair[1].variables.clear() for every register
clearRegisters(a) ==
  IF Ok(a)
    THEN [a EXCEPT !.registerDescriptors =
                     [i \in DOMAIN @ |->
                        [key |-> @[i].key,
                         value |-> RegisterDescriptor(@[i].value.usable, <<>>)]]]
    ELSE a

deallocateProcMemory(a) ==
  LET cleared(b) == IF Ok(b) THEN [b EXCEPT !.addressDescriptors = <<>>] ELSE b
  IN clearRegisters(cleared(writeBack(a, 1)))

deallocateBlockMemory(a) ==
  LET forgotten(b) ==
        IF Ok(b)
          THEN [b EXCEPT !.addressDescriptors =
                           [i \in DOMAIN @ |->
                              [key |-> @[i].key,
                               value |-> AddressDescriptor(
                                           @[i].value.boundMemAddress,
                                           SelectSeq(@[i].value.currentAddresses,
                                                     LAMBDA addr : ~startsWithDollar(addr)))]]]
          ELSE b
  IN forgotten(clearRegisters(writeBack(a, 1)))

\* lines 569-592
manageResDescriptors(a, regX, res) ==
  LET held == setRegisterVariables(a, regX, <<res>>)
  IN IF ~Ok(a) THEN a
     ELSE IF MapHas(a.addressDescriptors, res)
       THEN [held EXCEPT !.addressDescriptors =
                           [i \in DOMAIN @ |->
                              [key |-> @[i].key,
                               value |-> AddressDescriptor(
                                           @[i].value.boundMemAddress,
                                           IF @[i].key = res THEN <<regX>>
                                           ELSE setDelete(@[i].value.currentAddresses, regX))]]]
     ELSE [held EXCEPT !.addressDescriptors =
                         MapSet(@, res, AddressDescriptor(UndefinedString, <<regX>>))]

\* ---- processTextSegment, lines 598-1241 ----
\* operand2.split('&')
RECURSIVE splitAmpersand(_, _, _)
splitAmpersand(operand, current, elements) ==
  IF operand = <<>> THEN Append(elements, current)
  ELSE IF Head(operand) = "&" THEN splitAmpersand(Tail(operand), <<>>, Append(elements, current))
  ELSE splitAmpersand(Tail(operand), Append(current, Head(operand)), elements)

\* addr.substr(0, 2) == '$t'
isTemporaryRegister(addr) ==
  addr \in {USEFUL_REGISTERS[i] : i \in 1..10}

\* boundMemAddress.includes('($0)') || (boundMemAddress[0] != '-' &&
\* !boundMemAddress.includes('($sp)')); a location that starts with '-' is a
\* stack slot, which holds '($sp)'
isGlobalAddress(boundMemAddress) ==
  Includes(boundMemAddress, "$0") \/ ~Includes(boundMemAddress, "$sp")

\* the last address of a Set that is tested before its first register: memLoc
RECURSIVE lastMemoryBeforeRegister(_, _)
lastMemoryBeforeRegister(addresses, memLoc) ==
  IF addresses = <<>> \/ startsWithDollar(Head(addresses)) THEN memLoc
  ELSE lastMemoryBeforeRegister(Tail(addresses), Head(addresses))

\* lines 617-659: one actual argument is passed
passArgument(a, actualArguments, argNum) ==
  LET actualArg == IF argNum < Len(actualArguments) THEN At(actualArguments, argNum)
                   ELSE UndefinedString
      addresses == currentAddressesOf(a, actualArg)
      regLoc == IF Includes(addresses, <<"$v0">>) THEN <<"$v0">> ELSE firstRegister(addresses)
      memLoc == lastMemoryBeforeRegister(addresses, EmptyString)
      slot == <<ToString(4 * argNum), "(", "$sp", ")">>
  IN IF addresses = <<>>
       THEN requireCondition(a, FALSE, "Actual argument does not have current address", actualArg)
     ELSE IF regLoc # EmptyString
       THEN IF argNum < 4 THEN newAsm(a, Asm2("move", ArgumentRegister(argNum), regLoc))
            ELSE newAsm(a, Asm2("sw", regLoc, slot))
     ELSE IF argNum < 4
       THEN newAsm(newAsm(newAsm(a, Asm2("lw", ArgumentRegister(argNum), memLoc)),
                          Asm0("nop")),
                   Asm0("nop"))
     ELSE newAsm(newAsm(newAsm(newAsm(a, Asm2("lw", <<"$v1">>, memLoc)), Asm0("nop")),
                        Asm0("nop")),
                 Asm2("sw", <<"$v1">>, slot))

RECURSIVE passArguments(_, _, _, _)
passArguments(a, actualArguments, parameters, argNum) ==
  IF ~(argNum < parameters) \/ ~Ok(a) THEN a
  ELSE passArguments(passArgument(a, actualArguments, argNum), actualArguments, parameters,
                     argNum + 1)

\* lines 664-686: the arguments that are in $v0, and those in a register
argsInV0(a, actualArguments, parameters) ==
  {At(actualArguments, argNum) : argNum \in
     {n \in 0..(parameters - 1) :
        /\ n < Len(actualArguments)
        /\ Includes(currentAddressesOf(a, At(actualArguments, n)), <<"$v0">>)}}

argsToKeep(a, actualArguments, parameters) ==
  {At(actualArguments, argNum) : argNum \in
     {n \in 0..(parameters - 1) :
        /\ n < Len(actualArguments)
        /\ firstRegister(currentAddressesOf(a, At(actualArguments, n))) # EmptyString}}

\* lines 707-723: the first address that is $v0 or a $t register
RECURSIVE firstCallerSaved(_)
firstCallerSaved(addresses) ==
  IF addresses = <<>> THEN EmptyString
  ELSE IF Head(addresses) = <<"$v0">> \/ isTemporaryRegister(Head(addresses))
    THEN Head(addresses)
  ELSE firstCallerSaved(Tail(addresses))

\* lines 690-730: the global variables whose memory is stale are stored
RECURSIVE storeGlobals(_, _, _, _)
storeGlobals(a, keep, inV0, i) ==
  IF i > Len(a.addressDescriptors) \/ ~Ok(a) THEN a
  ELSE LET varId == a.addressDescriptors[i].key
           descriptor == a.addressDescriptors[i].value
       IN IF /\ ~(varId \in keep /\ varId \notin inV0)
             /\ descriptor.boundMemAddress # UndefinedString
             /\ ~Includes(descriptor.currentAddresses, descriptor.boundMemAddress)
             /\ isGlobalAddress(descriptor.boundMemAddress)
             /\ firstCallerSaved(descriptor.currentAddresses) # EmptyString
            THEN storeGlobals(storeVar(a, varId, firstCallerSaved(descriptor.currentAddresses)),
                              keep, inV0, i + 1)
            ELSE storeGlobals(a, keep, inV0, i + 1)

\* lines 739-747: no variable is in a $t register any more
forgetTemporaries(a) ==
  LET variablesLeft(entry) ==
        IF isTemporaryRegister(entry.key)
          THEN SelectSeq(entry.value.variables,
                         LAMBDA v : ~Includes(currentAddressesOf(a, v), entry.key))
          ELSE entry.value.variables
      addressesLeft(entry) ==
        SelectSeq(entry.value.currentAddresses, LAMBDA addr : ~isTemporaryRegister(addr))
  IN IF ~Ok(a) THEN a
     ELSE [a EXCEPT
             !.registerDescriptors =
                [i \in DOMAIN a.registerDescriptors |->
                   [key |-> a.registerDescriptors[i].key,
                    value |-> RegisterDescriptor(a.registerDescriptors[i].value.usable,
                                                 variablesLeft(a.registerDescriptors[i]))]],
             !.addressDescriptors =
                [i \in DOMAIN a.addressDescriptors |->
                   [key |-> a.addressDescriptors[i].key,
                    value |-> AddressDescriptor(a.addressDescriptors[i].value.boundMemAddress,
                                                addressesLeft(a.addressDescriptors[i]))]]]

\* whether the quadruple at index (from 0) of the block is a call with
\* the argument id
isCallWith(instructions, index, id) ==
  /\ index < Len(instructions)
  /\ At(instructions, index).operation = "call"
  /\ At(instructions, index).operand2 # EmptyString
  /\ Includes(splitAmpersand(At(instructions, index).operand2, <<>>, <<>>), id)

\* lines 763-778
nextIsVarAssignToCallArg(instructions, irIndex) ==
  /\ irIndex + 1 < Len(instructions)
  /\ At(instructions, irIndex + 1).operation = "=var"
  /\ At(instructions, irIndex + 1).result # EmptyString
  /\ isCallWith(instructions, irIndex + 2, At(instructions, irIndex + 1).result)

\* lines 749-806: the value returned in $v0 becomes result
receiveResult(a, quad, blockIndex, irIndex) ==
  LET instructions == At(a.ir.basicBlocks, blockIndex).instructions
      result == quad.result
      bound == boundMemAddressOf(a, result)
      isGlobalVar == bound # UndefinedString /\ isGlobalAddress(bound)
      isLocalVar == bound # UndefinedString /\ ~isGlobalVar /\ Includes(bound, "$sp")
      moved(b) ==
        IF ~Ok(b) THEN b ELSE
        LET stored(c) ==
              IF isLocalVar
                THEN setCurrentAddresses(storeVar(c, result, b.ret[1]), result, <<bound>>)
                ELSE c
        IN stored(manageResDescriptors(newAsm(b, Asm2("move", b.ret[1], <<"$v0">>)),
                                       b.ret[1], result))
  IN IF \/ isCallWith(instructions, irIndex + 1, result)
        \/ isGlobalVar
        \/ nextIsVarAssignToCallArg(instructions, irIndex)
       THEN manageResDescriptors(a, <<"$v0">>, result)
       ELSE moved(getRegs(a, quad, blockIndex, irIndex))

\* lines 609-808
processCall(a, quad, blockIndex, irIndex) ==
  LET found == {i \in DOMAIN a.ir.functionPool :
                  <<a.ir.functionPool[i].functionName>> = quad.operand1}
      func == a.ir.functionPool[CHOOSE i \in found : \A j \in found : i <= j]
      parameters == Len(func.parameterList)
      actualArguments == splitAmpersand(quad.operand2, <<>>, <<>>)
      binaryOp == quad.operand1 # EmptyString /\ quad.operand2 # EmptyString
      passed == IF binaryOp THEN passArguments(a, actualArguments, parameters, 0) ELSE a
      called(b) ==
        forgetTemporaries(newAsm(newAsm(b, Asm1("jal", quad.operand1)), Asm0("nop")))
      flushed(b) ==
        IF binaryOp
          THEN storeGlobals(b, argsToKeep(b, actualArguments, parameters),
                            argsInV0(b, actualArguments, parameters), 1)
          ELSE storeGlobals(b, {}, {}, 1)
      received(b) ==
        IF Ok(b) /\ quad.result # EmptyString THEN receiveResult(b, quad, blockIndex, irIndex)
        ELSE b
  IN IF found = {}
       THEN requireCondition(a, FALSE, "Unidentified function", quad.operand1)
     ELSE IF func.functionName = "main"
       THEN requireCondition(a, FALSE, "Cannot call main!", quad.operand1)
     ELSE received(called(flushed(passed)))

\* lines 1160-1162: the part of a label after its last '_'
labelType(result) ==
  IF result = <<>> THEN ""
  ELSE IF result[Len(result)] \in {"_entry", "__asm_entry"} THEN "entry"
  ELSE IF result[Len(result)] \in {"_exit", "__asm_exit"} THEN "exit"
  ELSE result[Len(result)]

\* lines 1169-1177: the line of a function's name, its comment in one piece
\* for each of its parts
entryLine(func, frameInfo) ==
  <<func.functionName, ":", "\t", "\t", " ", "#", " ", "vars", " ", "=", " ",
    ToString(frameInfo.localData), ",", " ", "regs", " ", "to", " ", "save($s#)", " ", "=", " ",
    ToString(frameInfo.numGPRs2Save), ",", " ", "outgoing", " ", "args", " ", "=", " ",
    ToString(frameInfo.outgoingSlots), ",", " ">>
  \o (IF frameInfo.numReturnAdd # 0 THEN <<>> ELSE <<"do", " ", "not", " ">>)
  \o <<"need", " ", "to", " ", "save", " ", "return", " ", "address">>

\* lines 1182-1186 and 1094-1100, 1213-1219: the $s registers are saved or
\* restored, index from 0
RECURSIVE saveRegisters(_, _, _)
saveRegisters(a, frameInfo, index) ==
  IF ~(index < frameInfo.numGPRs2Save) THEN a
  ELSE saveRegisters(
         newAsm(a, Asm2("sw", SavedRegister(index),
                        StackSlot(frameInfo.wordSize - frameInfo.numGPRs2Save + index))),
         frameInfo, index + 1)

RECURSIVE restoreRegisters(_, _, _)
restoreRegisters(a, frameInfo, index) ==
  IF ~(index < frameInfo.numGPRs2Save) THEN a
  ELSE restoreRegisters(
         newAsm(newAsm(newAsm(a, Asm2("lw", SavedRegister(index),
                                      StackSlot(frameInfo.wordSize - frameInfo.numGPRs2Save
                                                + index))),
                       Asm0("nop")),
                Asm0("nop")),
         frameInfo, index + 1)

\* lines 1163-1188: the entry label of a function and its prologue
prologue(a, result) ==
  LET found == {i \in DOMAIN a.ir.functionPool : a.ir.functionPool[i].entryLabel = result}
      currentFunc == a.ir.functionPool[CHOOSE i \in found : \A j \in found : i <= j]
      frameInfo == MapGet(a.stackFrameInfos, currentFunc.functionName)
      entered(b) ==
        saveRegisters(
          IF ~frameInfo.isLeaf
            THEN newAsm(b, Asm2("sw", <<"$ra">>, StackSlot(frameInfo.wordSize - 1)))
            ELSE b,
          frameInfo, 0)
  IN IF ~Ok(a) THEN a
     ELSE IF found = {} \/ ~MapHas(a.stackFrameInfos, currentFunc.functionName)
       THEN requireCondition(a, FALSE, "Function name not in the pool", result)
     ELSE allocateProcMemory(
            entered(newAsm(newAsm([a EXCEPT !.currentFunc = currentFunc,
                                            !.currentFrameInfo = frameInfo],
                                  entryLine(currentFunc, frameInfo)),
                           Asm3("addiu", <<"$sp">>, <<"$sp">>,
                                <<"-" , ToString(4 * frameInfo.wordSize)>>))),
            currentFunc)

\* an epilogue that gives back the words of the local data only
epilogue_localDataOnly(a) ==
  LET frameInfo == a.currentFrameInfo
  IN IF ~Ok(a) THEN a
     ELSE newAsm(newAsm(newAsm(a, Asm3("addiu", <<"$sp">>, <<"$sp">>,
                                       <<ToString(4 * frameInfo.localData)>>)),
                        Asm1("jr", <<"$ra">>)),
                 Asm0("nop"))

\* lines 1092-1109 and 1211-1228: the epilogue of the current function
epilogue(a) ==
  LET frameInfo == a.currentFrameInfo
      restored(b) ==
        IF ~frameInfo.isLeaf
          THEN newAsm(newAsm(newAsm(b, Asm2("lw", <<"$ra">>, StackSlot(frameInfo.wordSize - 1))),
                             Asm0("nop")),
                      Asm0("nop"))
          ELSE b
  IN IF ~Ok(a) THEN a
     ELSE IF frameInfo = Undefined
       THEN requireCondition(a, FALSE, "Undefined frame info", EmptyString)
     ELSE newAsm(newAsm(newAsm(restored(restoreRegisters(a, frameInfo, 0)),
                               Asm3("addiu", <<"$sp">>, <<"$sp">>,
                                    <<ToString(4 * frameInfo.wordSize)>>)),
                        Asm1("jr", <<"$ra">>)),
                 Asm0("nop"))

\* lines 811-846 and 848-883: the element address is computed in $v1; the two
\* branches on the form of the base address write the same lines
elementAddress(a, indexRegister, arrayId) ==
  LET baseAddr == boundMemAddressOf(a, arrayId)
  IN IF ~Ok(a) THEN a
     ELSE IF baseAddr = UndefinedString
       THEN requireCondition(
              newAsm(newAsm(a, Asm2("move", <<"$v1">>, indexRegister)),
                     Asm3("sll", <<"$v1">>, <<"$v1">>, <<"2">>)),
              FALSE, "array base address undefined", arrayId)
     ELSE newAsm(newAsm(newAsm(newAsm(newAsm(newAsm(a,
            Asm2("move", <<"$v1">>, indexRegister)),
            Asm3("sll", <<"$v1">>, <<"$v1">>, <<"2">>)),
            Asm2("lw", <<"$t9">>, baseAddr)),
            Asm0("nop")),
            Asm0("nop")),
            Asm3("add", <<"$v1">>, <<"$t9">>, <<"$v1">>))

\* lines 811-1001: a quadruple with two operands
processBinary(a, quad, blockIndex, irIndex) ==
  LET regs(b) == b.ret
      storeElement(b) ==
        IF ~Ok(b) THEN b
        ELSE LET stored(c) == newAsm(c, Asm2("sw", regs(b)[2], <<"0", "(", "$v1", ")">>))
             IN stored(elementAddress(b, regs(b)[1], quad.result))
      loadElement(b) ==
        IF ~Ok(b) THEN b
        ELSE LET fetched(c) ==
                   manageResDescriptors(
                     newAsm(newAsm(newAsm(c, Asm2("lw", regs(b)[2], <<"0", "(", "$v1", ")">>)),
                                   Asm0("nop")),
                            Asm0("nop")),
                     regs(b)[2], quad.result)
             IN fetched(elementAddress(b, regs(b)[1], quad.operand1))
      arithmetic(b, mnemonic) ==
        IF ~Ok(b) THEN b
        ELSE manageResDescriptors(newAsm(b, Asm3(mnemonic, regs(b)[3], regs(b)[1], regs(b)[2])),
                                  regs(b)[3], quad.result)
  IN CASE quad.operation = "=[]" -> storeElement(getRegs(a, quad, blockIndex, irIndex))
       [] quad.operation = "[]" -> loadElement(getRegs(a, quad, blockIndex, irIndex))
       [] quad.operation = "PLUS" -> arithmetic(getRegs(a, quad, blockIndex, irIndex), "add")
       [] quad.operation = "MINUS" -> arithmetic(getRegs(a, quad, blockIndex, irIndex), "sub")

\* lines 1025-1078: '=var'
processAssignment(a, quad, blockIndex, irIndex) ==
  LET instructions == At(a.ir.basicBlocks, blockIndex).instructions
      operand1 == quad.operand1
      result == quad.result
      assigned(b) ==
        LET regY == b.ret[1]
            sourceInV0 == Includes(currentAddressesOf(b, operand1), <<"$v0">>)
            sourceInReg == Includes(currentAddressesOf(b, operand1), regY) \/ sourceInV0
            bound == boundMemAddressOf(b, result)
            held == setRegisterVariables(
                      b, regY,
                      IF MapHas(b.registerDescriptors, regY)
                        THEN setAdd(MapGet(b.registerDescriptors, regY).variables, result)
                        ELSE <<>>)
        IN IF ~Ok(b) THEN b
           ELSE IF isCallWith(instructions, irIndex + 1, result) /\ sourceInV0
             THEN manageResDescriptors(b, <<"$v0">>, result)
           ELSE IF ~MapHas(b.addressDescriptors, result)
             THEN [held EXCEPT !.addressDescriptors =
                                 MapSet(@, result, AddressDescriptor(UndefinedString, <<regY>>))]
           ELSE IF /\ bound # UndefinedString
                   /\ \/ ~Includes(currentAddressesOf(b, result), bound)
                      \/ (sourceInReg /\ Includes(bound, "$sp"))
             THEN setCurrentAddresses(storeVar(held, result, regY), result, <<bound>>)
           ELSE setCurrentAddresses(held, result, <<regY>>)
  IN assigned(getRegs(a, quad, blockIndex, irIndex))

\* lines 1079-1126: 'return_expr'
processReturnExpr(a, quad) ==
  LET addresses == currentAddressesOf(a, quad.operand1)
      regLoc == firstRegister(addresses)
      memLoc == lastMemoryBeforeRegister(addresses, EmptyString)
      valued ==
        IF addresses = <<>>
          THEN requireCondition(a, FALSE, "Return value does not have current address",
                                quad.operand1)
        ELSE IF regLoc # EmptyString THEN newAsm(a, Asm2("move", <<"$v0">>, regLoc))
        ELSE newAsm(newAsm(newAsm(a, Asm2("lw", <<"$v0">>, memLoc)), Asm0("nop")), Asm0("nop"))
  IN epilogue(deallocateBlockMemory(valued))

\* line 1000: operand1.substring(1, operand1.length - 1), for the string
\* literals of the model
unquoted(operand1) == CASE operand1 = <<"\"nop\"">> -> <<"nop">>

\* lines 996-1159: a quadruple with one operand
processUnary(a, quad, blockIndex, irIndex) ==
  LET branch(b) ==
        IF ~Ok(b) THEN b
        ELSE LET jump(c) ==
                   newAsm(newAsm(c, Asm3("beq", b.ret[1], <<"$zero">>, quad.result)),
                          Asm0("nop"))
             IN jump(deallocateBlockMemory(b))
      constant(b) ==
        IF ~Ok(b) THEN b
        ELSE manageResDescriptors(
               newAsm(b, Asm3("addiu", b.ret[1], <<"$zero">>, quad.operand1)),
               b.ret[1], quad.result)
      plus(b) ==
        IF ~Ok(b) THEN b
        ELSE LET moved(c) ==
                   manageResDescriptors(newAsm(c, Asm2("move", b.ret[2], b.ret[1])),
                                        b.ret[2], quad.result)
             IN moved(IF ~registerHolds(b, b.ret[1], quad.operand1)
                        THEN loadVar(b, quad.operand1, b.ret[1])
                        ELSE b)
  IN CASE quad.operation = "out_asm" -> newAsm(a, unquoted(quad.operand1))
       [] quad.operation = "j_false" -> branch(getRegs(a, quad, blockIndex, irIndex))
       [] quad.operation = "=const" -> constant(getRegs(a, quad, blockIndex, irIndex))
       [] quad.operation = "=var" -> processAssignment(a, quad, blockIndex, irIndex)
       [] quad.operation = "return_expr" -> processReturnExpr(a, quad)
       [] quad.operation = "PLUS" -> plus(getRegs(a, quad, blockIndex, irIndex))

\* lines 1160-1235: a quadruple without operands
processOther(a, quad) ==
  LET jump(b) == newAsm(newAsm(b, Asm1("j", quad.result)), Asm0("nop"))
  IN CASE quad.operation = "set_label" ->
            (IF labelType(quad.result) = "entry" THEN prologue(a, quad.result)
             ELSE IF labelType(quad.result) = "exit" THEN deallocateProcMemory(a)
             ELSE newAsm(a, quad.result \o <<":">>))
       [] quad.operation = "j" -> jump(deallocateBlockMemory(a))
       [] quad.operation = "return_void" -> epilogue(deallocateBlockMemory(a))

\* lines 603-1234: the switch on the operation of one quadruple
processSwitch(a, blockIndex, irIndex) ==
  LET instructions == At(a.ir.basicBlocks, blockIndex).instructions
      quad == At(instructions, irIndex)
      binaryOp == quad.operand1 # EmptyString /\ quad.operand2 # EmptyString
      unaryOp == (quad.operand1 # EmptyString) # (quad.operand2 # EmptyString)
  IN IF ~Ok(a) THEN a
     ELSE IF quad.operation = "call" THEN processCall(a, quad, blockIndex, irIndex)
     ELSE IF binaryOp THEN processBinary(a, quad, blockIndex, irIndex)
     ELSE IF unaryOp THEN processUnary(a, quad, blockIndex, irIndex)
     ELSE processOther(a, quad)

\* lines 1236-1238: the end of the block, when its last quadruple is not a
\* label or a jump
processBlockEnd(a, blockIndex, irIndex) ==
  LET instructions == At(a.ir.basicBlocks, blockIndex).instructions
      quad == At(instructions, irIndex)
  IN IF ~Ok(a) THEN a
     ELSE IF /\ quad.operation \notin {"set_label", "j", "j_false"}
             /\ irIndex = Len(instructions) - 1
       THEN deallocateBlockMemory(a)
     ELSE a

\* lines 603-1239: one quadruple, and the end of its block
processQuadruple(a, blockIndex, irIndex) ==
  processBlockEnd(processSwitch(a, blockIndex, irIndex), blockIndex, irIndex)

RECURSIVE processBlock(_, _, _)
processBlock(a, blockIndex, irIndex) ==
  IF ~Ok(a) \/ ~(irIndex < Len(At(a.ir.basicBlocks, blockIndex).instructions)) THEN a
  ELSE processBlock(processQuadruple(a, blockIndex, irIndex), blockIndex, irIndex + 1)

RECURSIVE processBlocks(_, _)
processBlocks(a, blockIndex) ==
  IF ~Ok(a) \/ ~(blockIndex < Len(a.ir.basicBlocks)) THEN a
  ELSE processBlocks(processBlock(a, blockIndex, 0), blockIndex + 1)

processTextSegment(a) == processBlocks(a, 0)

\* lines 133-149
RECURSIVE initializeGlobalVarsFrom(_, _)
initializeGlobalVarsFrom(a, i) ==
  IF i > Len(a.ir.variablePool) THEN a
  ELSE LET var_ == a.ir.variablePool[i]
           RECURSIVE zeros(_)
           zeros(n) == IF n <= 0 THEN <<>>
                       ELSE IF n = 1 THEN <<"0x0">>
                       ELSE <<"0x0", ",", " ">> \o zeros(n - 1)
       IN IF ~areScopesEqual(var_.scopePath, a.ir.GLOBAL_SCOPE_PATH)
            THEN initializeGlobalVarsFrom(a, i + 1)
          ELSE initializeGlobalVarsFrom(
                 newAsm(a, <<nameOf(var_), ":", " ", ".word", " ">>
                           \o (IF var_.kind = "variable" THEN <<"0x0">> ELSE zeros(var_.length))),
                 i + 1)

initializeGlobalVars(a) == initializeGlobalVarsFrom(a, 1)

\* lines 33-46: the constructor up to the text segment
beforeTextSegment(ir) ==
  newAsm(
    initializeGlobalVars(
      newAsm(
        calcFrameInfo(
          [ir |-> ir, asm |-> <<>>,
           registerDescriptors |->
             [i \in DOMAIN USEFUL_REGISTERS |->
                [key |-> USEFUL_REGISTERS[i], value |-> RegisterDescriptor(TRUE, <<>>)]],
           addressDescriptors |-> <<>>, stackFrameInfos |-> <<>>,
           currentFunc |-> Undefined, currentFrameInfo |-> Undefined,
           ret |-> <<>>, thrown |-> <<>>]),
        Asm0(".data"))),
    Asm0(".text"))

\* lines 33-47: the constructor up to the peephole pass
rawAssembly(ir) == processTextSegment(beforeTextSegment(ir))

\* lines 33-49: new AssemblyCodeGenerator(ir)
AssemblyCodeGenerator(ir) ==
  LET optimized(a) == IF Ok(a) THEN [a EXCEPT !.asm = peepholeOptimize(a.asm)] ELSE a
  IN optimized(rawAssembly(ir))

\* ---- the code generator in a compilation ----
\* new AssemblyCodeGenerator(ir), which main.ts calls when the intermediate
\* code generator has returned
Assemble ==
  /\ irPc = "constructed"
  /\ cgPc = "idle"
  /\ \E a \in {AssemblyCodeGenerator(generator)} :
       /\ assembler' = a
       /\ cgPc' = IF Ok(a) THEN "generated" ELSE "thrown"
       /\ UNCHANGED <<cgBlockIndex, cgIrIndex>>
  /\ UNCHANGED <<autoVars, lexVars, parseVars, irVars, peepVars, drvVars>>

CgNext == Construct \/ Assemble \/ Release

\* ---- processTextSegment, one quadruple after the other ----
\* the first block from blockIndex on that has an instruction, the number of
\* blocks if there is none
RECURSIVE nextBlock(_, _)
nextBlock(blocks, blockIndex) ==
  IF ~(blockIndex < Len(blocks)) \/ At(blocks, blockIndex).instructions # <<>> THEN blockIndex
  ELSE nextBlock(blocks, blockIndex + 1)

\* lines 600-602: the two for loops stand at the quadruple irIndex of the
\* block blockIndex, or processTextSegment returns
LoopAt(a, blockIndex, irIndex) ==
  IF ~Ok(a) THEN cgPc' = "thrown" /\ UNCHANGED <<cgBlockIndex, cgIrIndex>>
  ELSE IF blockIndex < Len(a.ir.basicBlocks)
          /\ irIndex < Len(At(a.ir.basicBlocks, blockIndex).instructions)
    THEN cgPc' = "switch" /\ cgBlockIndex' = blockIndex /\ cgIrIndex' = irIndex
  ELSE IF nextBlock(a.ir.basicBlocks, blockIndex + 1) < Len(a.ir.basicBlocks)
    THEN /\ cgPc' = "switch"
         /\ cgBlockIndex' = nextBlock(a.ir.basicBlocks, blockIndex + 1)
         /\ cgIrIndex' = 0
  ELSE cgPc' = "emitted" /\ UNCHANGED <<cgBlockIndex, cgIrIndex>>

\* lines 33-46 and 598-602: the constructor enters processTextSegment
EnterTextSegment ==
  /\ irPc = "constructed"
  /\ cgPc = "idle"
  /\ \E a \in {beforeTextSegment(generator)} :
       /\ assembler' = a
       /\ LoopAt(a, nextBlock(a.ir.basicBlocks, 0), 0)
  /\ UNCHANGED <<autoVars, lexVars, parseVars, irVars, peepVars, drvVars>>

\* lines 603-1234: the switch on the quadruple the loops stand at
Switch ==
  /\ cgPc = "switch"
  /\ \E a \in {processSwitch(assembler, cgBlockIndex, cgIrIndex)} :
       /\ assembler' = a
       /\ cgPc' = IF Ok(a) THEN "blockEnd" ELSE "thrown"
  /\ UNCHANGED <<cgBlockIndex, cgIrIndex>>
  /\ UNCHANGED <<autoVars, lexVars, parseVars, irVars, peepVars, drvVars>>

\* lines 1236-1238 and the loops' increments
BlockEnd ==
  /\ cgPc = "blockEnd"
  /\ \E a \in {processBlockEnd(assembler, cgBlockIndex, cgIrIndex)} :
       /\ assembler' = a
       /\ LoopAt(a, cgBlockIndex, cgIrIndex + 1)
  /\ UNCHANGED <<autoVars, lexVars, parseVars, irVars, peepVars, drvVars>>

\* line 48: this.peepholeOptimize(), and the constructor returns
Optimize ==
  /\ cgPc = "emitted"
  /\ assembler' = [assembler EXCEPT !.asm = peepholeOptimize(@)]
  /\ cgPc' = "generated"
  /\ UNCHANGED <<cgBlockIndex, cgIrIndex>>
  /\ UNCHANGED <<autoVars, lexVars, parseVars, irVars, peepVars, drvVars>>

QuadNext == Construct \/ EnterTextSegment \/ Switch \/ BlockEnd \/ Optimize \/ Release

(***************************************************************************)
(* main.ts: the compiler driver, one compilation in one process.           *)
(***************************************************************************)
\* v.startsWith('.') for the lines the generator writes
startsWithDot(line) == line # <<>> /\ line[1] \in {".data", ".text"}

\* line 110: the text of one line
assemblyLine(v) ==
  (IF ~(startsWithDot(v) \/ Includes(v, ":")) THEN <<"\t">> ELSE <<>>)
  \o replace(v, <<<<" ">>>>, <<<<"\t">>>>)

\* Array.join('\n')
RECURSIVE joinLines(_)
joinLines(lines) ==
  IF lines = <<>> THEN <<>>
  ELSE IF Len(lines) = 1 THEN lines[1]
  ELSE joinLines(SubSeq(lines, 1, Len(lines) \div 2)) \o <<"\n">>
       \o joinLines(SubSeq(lines, Len(lines) \div 2 + 1, Len(lines)))

\* lines 109-111
toAssembly(a) == joinLines([i \in DOMAIN a.asm |-> assemblyLine(a.asm[i])])

\* outputName + '.asm' and the names of the two interrupt files
AsmFileName == "<outputName>.asm"
InterruptFileNames == <<"minisys-interrupt-entry.asm", "minisys-interrupt-handler.asm">>

\* lines 359-366 of main.ts: a CompilerError is reported and the process exits
\* with code 1; any other error is thrown again, and the run-time ends the
\* process with code 1 for an exception nobody has caught
Exit(code) ==
  /\ drvPc' = "exited"
  /\ exitCode' = code

DriverInit ==
  /\ AutoIdle(<<>>, "idle", NewAutomaton)
  /\ LexIdle(<<>>)
  /\ ParseIdle(<<>>, [symbols |-> <<>>], FALSE, "idle", MAX_ITERATIONS)
  /\ IrIdle(<<0>>)
  /\ CgIdle
  /\ PeepIdle(<<>>)
  /\ DrvIdle("start")

\* line 165, before the try block: exactly one source path is required
CheckArguments ==
  /\ drvPc = "start"
  /\ \E paths \in 0..2 :
       IF paths = 1 THEN drvPc' = "try" /\ UNCHANGED exitCode ELSE Exit(1)
  /\ UNCHANGED <<asmCode, outputFiles>>
  /\ UNCHANGED <<autoVars, lexVars, parseVars, irVars, cgVars, peepVars>>

\* lines 196-198: the source is read and must not be blank
ReadSource ==
  /\ drvPc = "try"
  /\ \E blank \in BOOLEAN :
       IF blank THEN Exit(1) ELSE drvPc' = "source" /\ UNCHANGED exitCode
  /\ UNCHANGED <<asmCode, outputFiles>>
  /\ UNCHANGED <<autoVars, lexVars, parseVars, irVars, cgVars, peepVars>>

\* lines 201-223: the include directives, the lexer DFA and the tokenizer;
\* each of them returns, raises a CompilerError or raises another error
Tokenize ==
  /\ drvPc = "source"
  /\ \E outcome \in {"tokens", "CompilerError", "Error"} :
       IF outcome = "tokens" THEN drvPc' = "tokens" /\ UNCHANGED exitCode ELSE Exit(1)
  /\ UNCHANGED <<asmCode, outputFiles>>
  /\ UNCHANGED <<autoVars, lexVars, parseVars, irVars, cgVars, peepVars>>

\* lines 226-248: the parsing table and the parser, which returns a tree or
\* null, or raises an error; null is made a CompilerError (line 246)
Parse ==
  /\ drvPc = "tokens"
  /\ \E outcome \in {"tree", "null", "CompilerError", "Error"} :
       IF outcome = "tree" THEN drvPc' = "tree" /\ UNCHANGED exitCode ELSE Exit(1)
  /\ UNCHANGED <<asmCode, outputFiles>>
  /\ UNCHANGED <<autoVars, lexVars, parseVars, irVars, cgVars, peepVars>>

\* line 258: const ir = new IntermediateCodeGenerator(astRoot)
GenerateIR ==
  /\ drvPc = "tree"
  /\ \E root \in Programs :
       \E g \in {IntermediateCodeGenerator(GLOBAL_SCOPE_PATH, root)} :
         /\ program' = root
         /\ generator' = g
         /\ GLOBAL_SCOPE_PATH' = g.GLOBAL_SCOPE_PATH
         /\ irPc' = IF Ok(g) THEN "constructed" ELSE "thrown"
         /\ IF Ok(g) THEN drvPc' = "ir" /\ UNCHANGED exitCode ELSE Exit(1)
  /\ compilations' = compilations + 1
  /\ UNCHANGED <<asmCode, outputFiles>>
  /\ UNCHANGED <<autoVars, lexVars, parseVars, cgVars, peepVars>>

\* line 263: const asmGenerator = new AssemblyCodeGenerator(ir)
GenerateAssembly ==
  /\ drvPc = "ir"
  /\ \E a \in {AssemblyCodeGenerator(generator)} :
       /\ assembler' = a
       /\ cgPc' = IF Ok(a) THEN "generated" ELSE "thrown"
       /\ UNCHANGED <<cgBlockIndex, cgIrIndex>>
       /\ IF Ok(a) THEN drvPc' = "assembled" /\ UNCHANGED exitCode ELSE Exit(1)
  /\ UNCHANGED <<asmCode, outputFiles>>
  /\ UNCHANGED <<autoVars, lexVars, parseVars, irVars, peepVars>>

\* lines 268-275: the text of the assembly is written to the .asm file
WriteAssembly ==
  /\ drvPc = "assembled"
  /\ asmCode' = toAssembly(assembler)
  /\ outputFiles' = Append(outputFiles, AsmFileName)
  /\ drvPc' = "written"
  /\ UNCHANGED exitCode
  /\ UNCHANGED <<autoVars, lexVars, parseVars, irVars, cgVars, peepVars>>

\* the last step raising a CompilerError once the .asm file is written
WriteInterruptFiles_raising ==
  /\ drvPc = "written"
  /\ Exit(1)
  /\ UNCHANGED <<asmCode, outputFiles>>
  /\ UNCHANGED <<autoVars, lexVars, parseVars, irVars, cgVars, peepVars>>

\* lines 327-357: the two interrupt files are written when the program has
\* interrupt functions, and the process ends; the text of the two files is
\* not part of the state
WriteInterruptFiles ==
  /\ drvPc = "written"
  /\ outputFiles' =
       IF \E i \in DOMAIN generator.functionPool :
            generator.functionPool[i].functionName \in InterruptFunctions
         THEN outputFiles \o InterruptFileNames
         ELSE outputFiles
  /\ Exit(0)
  /\ UNCHANGED asmCode
  /\ UNCHANGED <<autoVars, lexVars, parseVars, irVars, cgVars, peepVars>>

DriverNext ==
  \/ CheckArguments
  \/ ReadSource
  \/ Tokenize
  \/ Parse
  \/ GenerateIR
  \/ GenerateAssembly
  \/ WriteAssembly
  \/ WriteInterruptFiles

\* ---- the lists of lines of the model ----
Registers == {"$t0", "$t1", "$t2"}

\* an addition, the moves between the registers, a load with its delay
\* slot, a store
Lines ==
  {Asm3("add", <<"$t0">>, <<"$t1">>, <<"$t2">>), Asm3("add", <<"$t1">>, <<"$t0">>, <<"$t2">>),
   Asm0("nop"),
   Asm2("lw", <<"$t0">>, <<"0", "(", "$sp", ")">>),
   Asm2("sw", <<"$t0">>, <<"0", "(", "$sp", ")">>)}
  \cup {Asm2("move", <<x>>, <<y>>) : x, y \in Registers}

\* the constructor writes '.data' before anything else (line 45), so the
\* list the pass is called on starts with it
LineLists == {<<Asm0(".data")>> \o lines : lines \in ListsUpTo(Lines, MaxLines)}

PeepInit ==
  /\ AutoIdle(<<>>, "idle", NewAutomaton)
  /\ LexIdle(<<>>)
  /\ ParseIdle(<<>>, [symbols |-> <<>>], FALSE, "idle", MAX_ITERATIONS)
  /\ IrIdle(<<0>>)
  /\ CgIdle
  /\ DrvIdle("idle")
  /\ \E lines \in LineLists : PeepIdle(lines)

\* this.peepholeOptimize()
Peephole ==
  /\ passes < MaxPasses
  /\ asmLines' = peepholeOptimize(asmLines)
  /\ passes' = passes + 1
  /\ UNCHANGED <<autoVars, lexVars, parseVars, irVars, cgVars, drvVars>>

PeepNext == Peephole

(***************************************************************************)
(* Specifications.                                                         *)
(***************************************************************************)
\* the lexer generator and the automata it builds
SpecAutomata == AutoInit /\ [][AutoNext]_vars

\* the tokenizer on a loaded lexer DFA
SpecLexer == LexInit /\ [][LexNext]_vars

\* parseTokenSequence on a token list, with one of the analyzers
SpecParser == ParseInit /\ [][ParseNext]_vars

\* compilations by the intermediate code generator in one process
SpecIR == IrInit /\ [][IrNext]_vars

\* compilations by the two generators in one process
SpecCodegen == IrInit /\ [][CgNext]_vars

\* the peephole pass, called again and again on a list of lines
SpecPeephole == PeepInit /\ [][PeepNext]_vars

\* the code generator's constructor, a quadruple at a time
SpecQuadruples == IrInit /\ [][QuadNext]_vars

\* main.ts compiling one source file
SpecDriver == DriverInit /\ [][DriverNext]_vars

(***************************************************************************)
(* Claims about the automata.                                              *)
(***************************************************************************)
\* C1: the DFA built by fromNFA accepts the fed input (run from its initial
\* state with getNextState) exactly when the NFA accepts it (simulated with
\* computeEpsilonClosure and computeStateMove).
C1_DfaAcceptsIffNfaAccepts ==
  autoPc = "run" => (DfaAccepts(dfa, dfaCur) <=> NfaAccepts)

\* the actions of the accepting NFA states of a state set
AcceptingActionsIn(set) ==
  { MapGet(nfa.acceptingStateActions, set[k]) :
      k \in { j \in 1..Len(set) : /\ Includes(nfa.acceptingStates, set[j])
                                  /\ MapHas(nfa.acceptingStateActions, set[j]) } }

\* the first rule, in file order, whose action is among acts
FirstWrittenRule(acts) ==
  rules[CHOOSE k \in 1..Len(rules) :
          rules[k].action \in acts /\ \A j \in 1..(k - 1) : rules[j].action \notin acts]

\* C3: a DFA state whose NFA state set holds accepting NFA states is accepting,
\* and its action is the one of the lowest order among them, which is the
\* action of the first-written of the rules that match.
C3_LowestOrderActionWins ==
  autoPc \in {"serialize", "deserialize", "run"} =>
    \A i \in 1..Len(nfaStateSets) :
      LET acts == AcceptingActionsIn(nfaStateSets[i])
          dfaState == dfa.stateList[i]
      IN acts # {} =>
           /\ Includes(dfa.acceptingStates, dfaState)
           /\ MapHas(dfa.acceptingStateActions, dfaState)
           /\ MapGet(dfa.acceptingStateActions, dfaState) \in acts
           /\ \A a \in acts : MapGet(dfa.acceptingStateActions, dfaState).order <= a.order
           /\ MapGet(dfa.acceptingStateActions, dfaState) = FirstWrittenRule(acts).action

\* C3 witness: a run ends in a DFA state that collapses accepting states of two
\* rules, the first of them in the set belonging to the later rule.
C3_Witness ==
  /\ autoPc = "run"
  /\ Len(fed) > 0
  /\ \E i \in 1..Len(nfaStateSets) :
       /\ dfaCur = dfa.stateList[i]
       /\ Cardinality(AcceptingActionsIn(nfaStateSets[i])) >= 2
       /\ LET set == nfaStateSets[i]
              first == CHOOSE j \in 1..Len(set) :
                         /\ Includes(nfa.acceptingStates, set[j])
                         /\ \A h \in 1..(j - 1) : ~Includes(nfa.acceptingStates, set[h])
          IN MapGet(nfa.acceptingStateActions, set[first]).order > 0
       /\ DfaAction(dfa, dfaCur).order = 0

\* the view of an automaton that does not depend on the identity of its states
ByIndex(d) ==
  [symbolSet |-> d.symbolSet,
   stateCount |-> Len(d.stateList),
   initial |-> [k \in 1..Len(d.initialStates) |-> IndexOf(d.stateList, d.initialStates[k])],
   accepting |-> [k \in 1..Len(d.acceptingStates) |-> IndexOf(d.stateList, d.acceptingStates[k])],
   transitions |-> d.transitionTable,
   actions |-> { <<IndexOf(d.stateList, d.acceptingStateActions[k].key), d.acceptingStateActions[k].value>> :
                   k \in 1..Len(d.acceptingStateActions) }]

\* two runs on the same input stand in the same state, accept alike and carry
\* the same accept action
SameRun(d1, cur1, d2, cur2) ==
  /\ (cur1 = NullState) <=> (cur2 = NullState)
  /\ cur1 # NullState => IndexOf(d1.stateList, cur1) = IndexOf(d2.stateList, cur2)
  /\ DfaAccepts(d1, cur1) <=> DfaAccepts(d2, cur2)
  /\ DfaAccepts(d1, cur1) =>
       /\ MapHas(d1.acceptingStateActions, cur1) <=> MapHas(d2.acceptingStateActions, cur2)
       /\ MapHas(d1.acceptingStateActions, cur1) => DfaAction(d1, cur1) = DfaAction(d2, cur2)

\* C4: deserialize(serialize(d)) has d's alphabet, state count, initial and
\* accepting state indices, transitions (special symbols included) and accept
\* actions, so it accepts the same inputs with the same actions.
C4_SerializeRoundTrip ==
  autoPc = "run" =>
    /\ ByIndex(loaded) = ByIndex(dfa)
    /\ SameRun(dfa, dfaCur, loaded, loadedCur)

\* C4 witness: the loaded automaton accepts an input over an OTHER_CHAR edge.
C4_Witness ==
  /\ autoPc = "run"
  /\ Len(fed) > 0
  /\ DfaAccepts(loaded, loadedCur)
  /\ \E i \in 1..Len(loaded.transitionTable) : \E j \in 1..Len(loaded.transitionTable[i]) :
       /\ loaded.transitionTable[i][j].inputSymbol = OTHER_CHAR
       /\ loadedCur = At(loaded.stateList, loaded.transitionTable[i][j].targetStateIndex)

\* C5: a file in the legacy schema loads to the automaton the new schema's file
\* of the same data loads to.
C5_LegacySchemaLoadsAlike ==
  autoPc = "run" =>
    /\ ByIndex(loadedLegacy) = ByIndex(loaded)
    /\ SameRun(loaded, loadedCur, loadedLegacy, legacyCur)

\* C5 witness: the automaton loaded from a legacy file with {alpha, target}
\* edges and accpetStateIndex items accepts an input.
C5_Witness ==
  /\ autoPc = "run"
  /\ Len(fed) > 0
  /\ DfaAccepts(loadedLegacy, legacyCur)
  /\ MapHas(loadedLegacy.acceptingStateActions, legacyCur)
  /\ "transformAdjList" \in DOMAIN legacyFile
  /\ \E i \in 1..Len(legacyFile.transformAdjList) :
       /\ Len(legacyFile.transformAdjList[i]) > 0
       /\ "alpha" \in DOMAIN legacyFile.transformAdjList[i][1]
  /\ Len(legacyFile.acceptActionMap) > 0

(***************************************************************************)
(* Claims about the tokenizer.                                             *)
(***************************************************************************)
\* the state a DFA run from the initial state ends in; a character is fed as its
\* index in the alphabet
RECURSIVE DfaRun(_, _, _, _)
DfaRun(d, cur, text, k) ==
  IF k > Len(text) THEN cur
  ELSE DfaRun(d, RunStep(d, cur, IndexOf(d.symbolSet, text[k])), text, k + 1)

\* the lengths of the non-empty prefixes of src from start that the DFA accepts
AcceptedPrefixLengths(d, src, start) ==
  { n \in 1..(Len(src) - start) :
      DfaAccepts(d, DfaRun(d, d.initialStates[1], SubSeq(src, start + 1, start + n), 1)) }

\* the line breaks among the first n characters
LineBreaks(src, n) == Cardinality({ i \in 1..n : src[i] = "\n" })

\* the 1-based column of the character at 0-based position p
ColumnOf(src, p) ==
  LET breaks == { i \in 0..(p - 1) : At(src, i) = "\n" }
  IN IF breaks = {} THEN p + 1 ELSE p - (CHOOSE i \in breaks : \A j \in breaks : j <= i)

\* the lexeme of the token is the text from the start of the call
C2_LexemeExact ==
  lexCall.kind = "token" =>
    tokens[Len(tokens)].literal =
      SubSeq(sourceCode, lexCall.start + 1, lexCall.start + Len(tokens[Len(tokens)].literal))

\* position and line counter stand at the end of the lexeme, the state is initial
C2_RolledBack ==
  lexCall.kind = "token" =>
    /\ currentPosition = lexCall.start + Len(tokens[Len(tokens)].literal)
    /\ currentLineNumber = 1 + LineBreaks(sourceCode, currentPosition)
    /\ currentStateIndex = IndexOf(loaded.stateList, loaded.initialStates[1])

\* the lexeme is the longest prefix of the remaining input the DFA accepts
C2_LongestAccepted ==
  lexCall.kind = "token" =>
    LET n == Len(tokens[Len(tokens)].literal)
        lens == AcceptedPrefixLengths(loaded, sourceCode, lexCall.start)
    IN n \in lens /\ \A k \in lens : k <= n

\* C2: every emitted token is the longest prefix of the remaining input that the
\* DFA accepts; after it the position and the line counter stand at the end of
\* the lexeme, the lexeme is the text from the token start to there, and the
\* tokenizer is in the initial state.
C2_TokenIsLongestAcceptedPrefix ==
  C2_LexemeExact /\ C2_RolledBack /\ C2_LongestAccepted

\* a call of performTokenization that is not at the end of the source leaves
\* the position further on, and a token it emits is the text it went over
Advances ==
  (lexPc = "run" /\ currentPosition < Len(sourceCode)) =>
    /\ currentPosition' > currentPosition
    /\ currentPosition' <= Len(sourceCode)
    /\ Len(tokens') > Len(tokens) =>
         /\ tokens'[Len(tokens')].literal # <<>>
         /\ tokens'[Len(tokens')].literal
              = SubSeq(sourceCode, currentPosition + 1, currentPosition')

\* the returned list has one SP_END token, its last element
EndsWithOneEnd ==
  lexPc = "done" =>
    /\ tokens # <<>>
    /\ \A k \in DOMAIN tokens : tokens[k].name = "SP_END" <=> k = Len(tokens)

\* the call at the end of the source returns 0, which ends the loop, and the
\* end token is pushed once
Stops ==
  /\ (lexPc = "run" /\ currentPosition = Len(sourceCode)) => lexPc' = "end"
  /\ lexPc = "run" => lexPc' \in {"run", "end", "thrown"}
  /\ lexPc = "end" => lexPc' = "done"
  /\ lexPc \in {"done", "thrown"} => lexPc' = lexPc

\* C30: tokenizeSourceCode terminates: every pass of its loop leaves the stream
\* position further on and within the source (no token has an empty lexeme, no
\* rollback returns to the start of the token or before it), the pass at the
\* end of the source ends the loop, and the returned list ends with its only
\* SP_END token.
C30_TokenizingTerminates ==
  /\ [][Advances /\ Stops]_vars
  /\ []EndsWithOneEnd

\* a token has been emitted after a rollback: the loop had read beyond the
\* token's last character
C30_Witness ==
  /\ lexPc = "run"
  /\ lexCall.kind = "token"
  /\ currentPosition > lexCall.start
  /\ lexCall.failedAt >= currentPosition

\* C10, with a collector: one lexical error with the line, column and character
\* is appended, exactly the failing character is skipped, nothing is thrown
C10_Collected ==
  (lexCall.kind = "error" /\ lexCall.dfaFailed /\ hasCollector) =>
    /\ lexPc # "thrown" /\ thrownError = <<>>
    /\ Len(collectedErrors) = lexCall.errorsBefore + 1
    /\ collectedErrors[Len(collectedErrors)].char = At(sourceCode, lexCall.failedAt)
    /\ collectedErrors[Len(collectedErrors)].lineNumber = 1 + LineBreaks(sourceCode, lexCall.failedAt)
    /\ collectedErrors[Len(collectedErrors)].position = ColumnOf(sourceCode, lexCall.failedAt)
    /\ lexCall.failedAt = lexCall.start
    /\ currentPosition = lexCall.start + 1

\* C10, without a collector: a compiler error with the line, column and
\* character is thrown
C10_Thrown ==
  (lexCall.kind = "error" /\ lexCall.dfaFailed /\ ~hasCollector) =>
    /\ lexPc = "thrown"
    /\ Len(thrownError) = 1
    /\ thrownError[1].char = At(sourceCode, lexCall.failedAt)
    /\ thrownError[1].lineNumber = 1 + LineBreaks(sourceCode, lexCall.failedAt)
    /\ thrownError[1].position = ColumnOf(sourceCode, lexCall.failedAt)

\* C10: a character that is not white space, ASCII or not, on which the DFA fails
\* with no last-accept recorded is thrown as a compiler error with line, column
\* and character when there is no collector; with a collector one lexical error
\* is appended, exactly that character is skipped and tokenising goes on.
C10_UnrecognisedCharacterReported == C10_Collected /\ C10_Thrown

(***************************************************************************)
(* Claims about the parser.                                                *)
(***************************************************************************)
ParseEnded == parsePc \in {"returned", "thrown"}

\* the tokens of a list that are neither white space nor comment
Significant(toks) ==
  LET counts(t) == t.name \notin {WHITESPACE_TOKEN_NAME, COMMENT_TOKEN_NAME}
  IN SelectSeq(toks, counts)

\* a sentence of the grammar L -> x L | y | (empty): some x, then at most one y
IsList(names) ==
  \A k \in 1..Len(names) : names[k] = "x" \/ (names[k] = "y" /\ k = Len(names))

\* the token list is a syntactically valid program, as the tokenizer ends it:
\* a sentence of the grammar and then the end marker
ValidProgram(toks) ==
  LET sig == Significant(toks)
  IN /\ Len(toks) > 0
     /\ toks[Len(toks)].name = "SP_END"
     /\ Len(sig) > 0
     /\ IsList([k \in 1..(Len(sig) - 1) |-> sig[k].name])

\* the significant tokens of the program before its end marker
ProgramBody(toks) == SubSeq(Significant(toks), 1, Len(Significant(toks)) - 1)

\* the token nodes of a syntax tree, from left to right
RECURSIVE Leaves(_)
Leaves(node) ==
  IF node.nodeType = "token" THEN <<node>>
  ELSE LET RECURSIVE join(_)
           join(k) == IF k > Len(node.childNodes) THEN <<>>
                      ELSE Leaves(node.childNodes[k]) \o join(k + 1)
       IN join(1)

IsPrefix(a, b) == Len(a) <= Len(b) /\ a = SubSeq(b, 1, Len(a))

\* the call has returned one syntax tree for the program toks: every
\* significant token was shifted once, in order, and is a leaf of the tree
ParsedAs(toks) ==
  /\ parsePc = "returned"
  /\ driverLog.shifted = ProgramBody(toks)
  /\ astRoot # Null
  /\ [k \in 1..Len(Leaves(astRoot)) |-> Leaves(astRoot)[k].literalValue]
       = [k \in 1..Len(ProgramBody(toks)) |-> ProgramBody(toks)[k].literal]

\* C6: on a syntactically valid program (with the grammar's own table) the
\* tokens shifted so far are the first significant tokens of the program, each
\* once and in order, and the call ends by returning one syntax tree whose
\* leaves are the program's significant tokens
C6_ValidProgramParsed ==
  (analyzer = ListAnalyzer /\ ValidProgram(driverLog.input)) =>
     /\ IsPrefix(driverLog.shifted, ProgramBody(driverLog.input))
     /\ ParseEnded => ParsedAs(driverLog.input)

\* the passes the driver's loops need for a valid program: one pass of the
\* outer loop for every token but the blanks and the comments inside a line,
\* and on the end marker one pass of the inner loop for every x and two more
OuterPasses(toks) ==
  Cardinality({ k \in 1..Len(toks) :
                  \/ toks[k].name \notin {WHITESPACE_TOKEN_NAME, COMMENT_TOKEN_NAME}
                  \/ toks[k].literal[Len(toks[k].literal)] = "\n" })

InnerPasses(toks) == Cardinality({ k \in 1..Len(toks) : toks[k].name = "x" }) + 2

\* the same holds of the valid programs that stay below the cap of the loops
C6_BelowTheCap ==
  (analyzer = ListAnalyzer /\ ValidProgram(driverLog.input)
     /\ OuterPasses(driverLog.input) < MAX_ITERATIONS
     /\ InnerPasses(driverLog.input) < MAX_ITERATIONS) =>
     /\ IsPrefix(driverLog.shifted, ProgramBody(driverLog.input))
     /\ ParseEnded => ParsedAs(driverLog.input)

\* a valid program of two tokens and the end marker has been parsed
C6_BelowTheCapReached ==
  /\ analyzer = ListAnalyzer
  /\ ValidProgram(driverLog.input)
  /\ Len(ProgramBody(driverLog.input)) = 2
  /\ OuterPasses(driverLog.input) = 3
  /\ ParsedAs(driverLog.input)

\* C7: once the ACTION lookup has yielded acc, the call ends by returning the
\* syntax node of the only element of the symbol stack, or, when the stack
\* holds another number of elements, by a CompilerError
C7_AcceptReturnsTheOnlyNode ==
  (driverLog.acc # <<>> /\ ParseEnded) =>
     IF driverLog.acc[1] = 1
     THEN parsePc = "returned" /\ Len(symbolStack) = 1 /\ astRoot = symbolStack[1].syntaxNode
     ELSE parsePc = "thrown" /\ parseThrown[1].errorType = "CompilerError"

\* with the grammar's own table acc is only met with one element on the stack
C7_AcceptHeight ==
  (analyzer = ListAnalyzer /\ driverLog.acc # <<>>) => driverLog.acc[1] = 1

\* the token at which the ACTION lookup first found no valid action
OffendingToken == At(parserTokens, driverLog.noAction[1].tokenIndex)

\* a missing action is reported with the line and column of the token, the
\* current state and the token's name: to the collector, or else thrown
C8_Reported ==
  driverLog.noAction # <<>> =>
    LET e == driverLog.noAction[1]
        carries(r) == /\ "lineNumber" \in DOMAIN r /\ r.lineNumber = OffendingToken.lineNumber
                      /\ "position" \in DOMAIN r /\ r.position = OffendingToken.position
                      /\ "state" \in DOMAIN r /\ r.state = e.state
                      /\ "tokenName" \in DOMAIN r /\ r.tokenName = OffendingToken.name
    IN IF errorCollector
       THEN Len(syntaxErrors) > e.errorsBefore /\ carries(syntaxErrors[e.errorsBefore + 1])
       ELSE parsePc = "thrown" /\ carries(parseThrown[1])

\* with a collector the call does not end at the offending token while tokens
\* remain after it: the token is dropped and the next one is read
C8_Continues ==
  (driverLog.noAction # <<>> /\ errorCollector /\ ParseEnded
     /\ driverLog.noAction[1].tokenIndex + 1 < Len(parserTokens)) =>
    currentTokenIndex > driverLog.noAction[1].tokenIndex + 1

\* C8: a missing action is reported with line, column, state and token name;
\* with a collector the error is appended, the offending token is dropped and
\* the parse continues with the next token
C8_MissingActionReportedAndSkipped == C8_Reported /\ C8_Continues

\* how far the driver is from its end: the outer iterations left, then the
\* inner iterations left, then the place in the loop body
ParseMeasure ==
  LET rank == CASE parsePc \in {"start", "idle"} -> 4
                [] parsePc = "retry" -> 3
                [] parsePc = "inner" -> 2
                [] parsePc \in {"outer", "exit"} -> 1
                [] OTHER -> 0
  IN ((MAX_ITERATIONS - iterationCount) * (MAX_ITERATIONS + 1)
        + (MAX_ITERATIONS - innerIterationCount)) * 5 + rank

\* a loop that has reached the cap has ended the call with a CompilerError
CapReported ==
  (iterationCount >= MAX_ITERATIONS \/ innerIterationCount >= MAX_ITERATIONS) =>
     /\ parsePc = "thrown"
     /\ parseThrown[1].errorType = "CompilerError"
     /\ parseThrown[1].kind \in {"outerCap", "innerCap"}

\* C9, as stated: the cap that bounds the driver's loops is the one the
\* caller configured
C9_CallerCapBoundsTheLoops ==
  /\ iterationCount <= callerCap
  /\ innerIterationCount <= callerCap
  /\ (parsePc = "thrown" /\ parseThrown[1].kind \in {"outerCap", "innerCap"}) =>
        (iterationCount = callerCap \/ innerIterationCount = callerCap)

\* C9, amended: the call terminates for every token list and every table,
\* because every step of the driver brings it nearer to its end: the cap fixed
\* in the code bounds the outer loop and each run of the inner loop, and a
\* loop that reaches the cap ends the call with an error
C9_FixedCapBoundsTheLoops ==
  /\ [](ParseMeasure >= 0 /\ CapReported)
  /\ [][ParseMeasure' < ParseMeasure]_vars

\* the cap has stopped the empty reduction that the looping table repeats
C9_Witness ==
  /\ analyzer = LoopingAnalyzer
  /\ parsePc = "thrown"
  /\ parseThrown[1].kind = "innerCap"
  /\ innerIterationCount = MAX_ITERATIONS
  /\ Len(symbolStack) >= MAX_ITERATIONS - 1

\* a reduce has returned its left-hand side and the driver has not looked up
\* the GOTO yet
pendingGoto == parsePc = "inner" /\ driverResult \notin {token, -1}

\* the state stack is one entry higher than the symbol stack, but between the
\* two calls of a reduce, where the non-terminal is pushed and its state is not
StackHeights ==
  parsePc \in {"outer", "inner", "retry"} =>
    Len(stateStack) = Len(symbolStack) + (IF pendingGoto THEN 0 ELSE 1)

\* GOTO(state, lhs): the column of a non-terminal is its rank among the
\* non-terminals
gotoOf(a, state, lhs) ==
  At(At(a.GOTOTable, state),
     Cardinality({ k \in 0..(lhs - 1) : At(a.symbols, k).type = "nonterminal" }))

\* the stacks as parseTokenSequence makes them
StartShape ==
  (parsePc = "start" /\ parsePc' # "thrown") =>
    stateStack' = <<analyzer.startStateId>> /\ symbolStack' = <<>>

\* a shift pushes one entry on each stack
ShiftShape ==
  (parsePc \in {"outer", "retry"} /\ Len(driverLog'.shifted) > Len(driverLog.shifted)) =>
    /\ Len(symbolStack') = Len(symbolStack) + 1
    /\ Len(stateStack') = Len(stateStack) + 1
    /\ SubSeq(symbolStack', 1, Len(symbolStack)) = symbolStack
    /\ SubSeq(stateStack', 1, Len(stateStack)) = stateStack

\* the first call of a reduce pops r entries from both stacks and pushes the
\* non-terminal
ReduceShape ==
  (parsePc \in {"outer", "retry"} /\ parsePc' = "inner" /\ pendingGoto') =>
    LET cell == At(At(parsingTable(analyzer), stateStack[Len(stateStack)]), token)
        production == At(analyzer.producers, cell.target)
    IN /\ cell.action = "reduce"
       /\ production.lhs = driverResult'
       /\ Len(symbolStack) >= Len(production.rhs)
       /\ stateStack' = SubSeq(stateStack, 1, Len(stateStack) - Len(production.rhs))
       /\ Len(symbolStack') = Len(symbolStack) - Len(production.rhs) + 1
       /\ SubSeq(symbolStack', 1, Len(symbolStack') - 1)
            = SubSeq(symbolStack, 1, Len(symbolStack) - Len(production.rhs))
       /\ symbolStack'[Len(symbolStack')].elementType = "nonterminal"

\* the second call of a reduce pushes GOTO(top state, lhs)
GotoShape ==
  (pendingGoto /\ parsePc' = "retry") =>
    /\ symbolStack' = symbolStack
    /\ stateStack' = Append(stateStack,
                            gotoOf(analyzer, stateStack[Len(stateStack)], driverResult))

\* C29: the state stack holds one entry more than the symbol stack after every
\* step of the driver; the stacks start as [start state] and [], a shift
\* pushes one entry on each, a reduce by a production of r right-hand-side
\* symbols pops r entries from both and pushes the non-terminal and
\* GOTO(top state, lhs).
C29_StacksInStep ==
  [][StackHeights' /\ StartShape /\ ShiftShape /\ ReduceShape /\ GotoShape]_vars

\* x y has been shifted and reduced to one list: the reduce by L -> x L has
\* popped two entries and the GOTO of the start state is pushed
C29_Witness ==
  /\ parsePc = "retry"
  /\ analyzer = ListAnalyzer
  /\ Len(driverLog.shifted) = 2
  /\ Len(symbolStack) = 1
  /\ symbolStack[1].elementType = "nonterminal"
  /\ stateStack = <<0, 1>>

(***************************************************************************)
(* Claims about the intermediate code generator.                           *)
(***************************************************************************)
\* the pairs of pool records that have the same name and the same scope path
DuplicateRecords(pool) ==
  {pair \in (DOMAIN pool) \X (DOMAIN pool) :
     /\ pair[1] < pair[2]
     /\ nameOf(pool[pair[1]]) = nameOf(pool[pair[2]])
     /\ pool[pair[1]].scopePath = pool[pair[2]].scopePath}

RedeclarationHints == {"global variable redeclared", "local variable redeclared"}

\* C11: once the constructor has returned, no two records of the pool have
\* both the same name and the same scope path (a second declaration of a
\* name at a scope path, be it of a global scalar, a global array or a local
\* variable, was fatal); and a redeclaration error names a name that the pool
\* already holds at the current scope path.
C11_RedeclarationIsFatal ==
  /\ irPc = "constructed" => DuplicateRecords(generator.variablePool) = {}
  /\ (irPc = "thrown" /\ generator.thrown[1].error = "CompilerError"
                      /\ generator.thrown[1].hint \in RedeclarationHints)
       => \E i \in DOMAIN generator.variablePool :
            /\ nameOf(generator.variablePool[i]) = generator.thrown[1].name
            /\ generator.variablePool[i].scopePath = generator.GLOBAL_SCOPE_PATH

\* C12: in a program that the generator accepts, every read of a variable
\* comes, in evaluation order, after its introduction as a parameter or after
\* a completed assignment to it (one whose right-hand side has been evaluated
\* and whose '=var' has been emitted): no variable is read while its flag
\* would still be false.
C12_NoReadBeforeInitialisation ==
  irPc = "constructed" => generator.earlyReads = {}

JumpsTo(list, piece) ==
  {i \in DOMAIN list : list[i].operation = "j" /\ list[i].result[4] = piece}

\* C13: in the instruction list of an accepted program, the result field of
\* every j and j_false quadruple, those emitted for break and continue
\* included, is the result field of some set_label quadruple of the list.
C13_JumpTargetsAreSet ==
  irPc = "constructed" =>
    \A i \in DOMAIN generator.instructionList :
      generator.instructionList[i].operation \in {"j", "j_false"}
        => \E k \in DOMAIN generator.instructionList :
             /\ generator.instructionList[k].operation = "set_label"
             /\ generator.instructionList[k].result = generator.instructionList[i].result

\* an accepted program with an if without else, and with a break and a
\* continue: a jump to a break label, and two jumps to one loop label
C13_Witness ==
  /\ irPc = "constructed"
  /\ \E i \in DOMAIN generator.instructionList :
       /\ generator.instructionList[i].operation = "j_false"
       /\ generator.instructionList[i].result[4] = "false"
  /\ JumpsTo(generator.instructionList, "end") = {}
  /\ JumpsTo(generator.instructionList, "break") # {}
  /\ \E i, k \in JumpsTo(generator.instructionList, "loop") :
       i # k /\ generator.instructionList[i].result = generator.instructionList[k].result

RECURSIVE ConcatBlocks(_)
ConcatBlocks(blocks) ==
  IF blocks = <<>> THEN <<>>
  ELSE ConcatBlocks(SubSeq(blocks, 1, Len(blocks) - 1)) \o blocks[Len(blocks)].instructions

\* C14: the leader indices of generateBasicBlocks are in non-decreasing
\* order, block i runs from leader i to the next leader exclusive, and the
\* blocks, concatenated in id order, are the instruction list: every
\* instruction is in exactly one block.
C14_BlocksCoverTheList ==
  irPc = "constructed" =>
    /\ \A i \in 1..(Len(generator.leaders) - 1) : generator.leaders[i] <= generator.leaders[i + 1]
    /\ Len(generator.basicBlocks) = Len(generator.leaders) - 1
    /\ \A i \in DOMAIN generator.basicBlocks :
         /\ generator.basicBlocks[i].blockId = i - 1
         /\ generator.basicBlocks[i].instructions =
              [k \in 1..(generator.leaders[i + 1] - generator.leaders[i]) |->
                 At(generator.instructionList, generator.leaders[i] + k - 1)]
    /\ ConcatBlocks(generator.basicBlocks) = generator.instructionList

\* an accepted program whose loop makes the leaders come out of order
\* before they are sorted (the target of j_false lies ahead, the next
\* leader behind it)
C14_Witness ==
  /\ irPc = "constructed"
  /\ Len(generator.basicBlocks) >= 4
  /\ \E i \in 1..(Len(scanLeaders(generator.instructionList, 0, <<>>, FALSE)) - 1) :
       scanLeaders(generator.instructionList, 0, <<>>, FALSE)[i]
         > scanLeaders(generator.instructionList, 0, <<>>, FALSE)[i + 1]

\* operand2.split('&'): the arguments of a call
RECURSIVE SplitArguments(_, _)
SplitArguments(operand, current) ==
  IF operand = <<>> THEN (IF current = <<>> THEN {} ELSE {current})
  ELSE IF operand[1] = "&" THEN {current} \cup SplitArguments(Tail(operand), <<>>)
  ELSE SplitArguments(Tail(operand), Append(current, operand[1]))

\* the operands of a quadruple that are not empty, not a literal (the first
\* operand of '=const', '=string' and 'out_asm') and not a label
NamedOperands(quad) ==
  {o \in (IF quad.operation \in {"=const", "=string", "out_asm"} THEN {} ELSE {quad.operand1})
          \cup (IF quad.operation = "call" THEN SplitArguments(quad.operand2, <<>>)
                                          ELSE {quad.operand2})
          \cup {quad.result} :
     o # EmptyString /\ o[1] # LABEL_PREFIX}

PoolIds == {idOf(generator.variablePool[i]) : i \in DOMAIN generator.variablePool}

\* C15 as stated: every operand of every quadruple that is neither empty, a
\* literal, nor a label is the id of a variable or array of the pool.
C15_OperandsAreInThePool ==
  irPc = "constructed" =>
    \A i \in DOMAIN generator.instructionList :
      NamedOperands(generator.instructionList[i]) \subseteq PoolIds

\* C15: every operand of every quadruple that is neither empty, a literal, a
\* label, nor the function name of a call is the id of a variable or array
\* of the pool, or a temporary of the generator: an id that is the result of
\* that quadruple or of an earlier one.
C15_OperandsAreInThePoolOrTemporaries ==
  irPc = "constructed" =>
    \A i \in DOMAIN generator.instructionList :
      \A o \in NamedOperands(generator.instructionList[i]) :
        \/ o \in PoolIds
        \/ generator.instructionList[i].operation = "call"
             /\ o = generator.instructionList[i].operand1
        \/ /\ o[1] = VARIABLE_PREFIX
           /\ \E k \in 1..i : generator.instructionList[k].result = o

\* an accepted program with a call whose argument is a pool variable and
\* whose result is a temporary that a later quadruple reads
C15_Witness ==
  /\ irPc = "constructed"
  /\ \E i \in DOMAIN generator.instructionList :
       /\ generator.instructionList[i].operation = "call"
       /\ generator.instructionList[i].operand2 \in PoolIds
       /\ generator.instructionList[i].result \notin PoolIds
       /\ \E k \in DOMAIN generator.instructionList :
            k > i /\ generator.instructionList[k].operand1 = generator.instructionList[i].result

\* what a compilation hands to its caller
SameResult(g, fresh) ==
  /\ g.thrown = fresh.thrown
  /\ g.variablePool = fresh.variablePool
  /\ g.functionPool = fresh.functionPool
  /\ g.instructionList = fresh.instructionList
  /\ g.basicBlocks = fresh.basicBlocks

\* C20: no state is carried from one compilation to the next in a process:
\* whenever a constructor is about to run, the global scope constant (and so
\* the scope path the generator starts with) is [0], whatever the earlier
\* compilations did; and what a compilation produces is what it produces in
\* a process that has compiled nothing before.
C20_NoStateCarriedOver ==
  /\ irPc = "idle" => GLOBAL_SCOPE_PATH = <<0>>
  /\ irPc \in {"constructed", "thrown"}
       => SameResult(generator, IntermediateCodeGenerator(<<0>>, program))

(***************************************************************************)
(* Claims about the code generator.                                        *)
(***************************************************************************)
\* C18: the peephole pass is idempotent: applied to the list a first pass
\* has left, peepholeOptimize returns that list unchanged.
C18_PeepholeIsIdempotent ==
  passes >= 1 => peepholeOptimize(asmLines) = asmLines

\* ---- the lines of the generated assembly ----
\* the line of a function's name (lines 1169-1177): a label followed by the
\* comment on its frame
IsEntryLine(line) == Len(line) > 3 /\ line[2] = ":" /\ line[3] = "\t"

\* the name on the last entry line at or before line i, '' when there is none
RECURSIVE EnclosingFunction(_, _)
EnclosingFunction(lines, i) ==
  IF i = 0 THEN ""
  ELSE IF IsEntryLine(lines[i]) THEN lines[i][1]
  ELSE EnclosingFunction(lines, i - 1)

\* the bytes of the frame of the function that encloses line i, as written
FrameBytes(a, i) ==
  ToString(4 * MapGet(a.stackFrameInfos, EnclosingFunction(a.asm, i)).wordSize)

\* the line names $sp as the register it writes
WritesStackPointer(line) ==
  /\ Len(line) >= 3
  /\ line[1] \notin {"sw", "jr", "j", "beq"}
  /\ line[3] = "$sp"

LowersStackPointer(line, bytes) == line = Asm3("addiu", <<"$sp">>, <<"$sp">>, <<"-", bytes>>)

RaisesStackPointer(line, bytes) == line = Asm3("addiu", <<"$sp">>, <<"$sp">>, <<bytes>>)

\* C16: in the generated assembly every function's entry line is followed by
\* a line that lowers $sp by 4 * wordSize of that function, every jr $ra is
\* preceded by a line that raises $sp by 4 * wordSize of the function it is
\* in, and no other line writes $sp.
C16_FrameIsBalanced ==
  cgPc = "generated" =>
    \A i \in DOMAIN assembler.asm :
      LET line == assembler.asm[i]
      IN /\ IsEntryLine(line) =>
              /\ i < Len(assembler.asm)
              /\ LowersStackPointer(assembler.asm[i + 1], FrameBytes(assembler, i))
         /\ line = Asm1("jr", <<"$ra">>) =>
              /\ i > 1
              /\ EnclosingFunction(assembler.asm, i) # ""
              /\ RaisesStackPointer(assembler.asm[i - 1], FrameBytes(assembler, i))
         /\ WritesStackPointer(line) =>
              /\ EnclosingFunction(assembler.asm, i) # ""
              /\ \/ i > 1 /\ IsEntryLine(assembler.asm[i - 1])
                          /\ LowersStackPointer(line, FrameBytes(assembler, i))
                 \/ i < Len(assembler.asm) /\ assembler.asm[i + 1] = Asm1("jr", <<"$ra">>)
                          /\ RaisesStackPointer(line, FrameBytes(assembler, i))

\* a function with a frame of its own that returns a value and one that
\* returns none have both been given their epilogues
C16_Witness ==
  /\ cgPc = "generated"
  /\ \E i, j \in DOMAIN assembler.asm :
       /\ i < j
       /\ assembler.asm[i] = Asm1("jr", <<"$ra">>)
       /\ assembler.asm[j] = Asm1("jr", <<"$ra">>)
       /\ EnclosingFunction(assembler.asm, i) # EnclosingFunction(assembler.asm, j)
       /\ FrameBytes(assembler, j) # "0"
       /\ FrameBytes(assembler, i) # FrameBytes(assembler, j)

\* the line is an lw
IsLoad(line) == line # <<>> /\ line[1] = "lw"

\* C17: in the assembly the code generator has left after its peephole pass,
\* one of the two lines that follow an lw is a nop.
C17_LoadIsFollowedByNop ==
  cgPc = "generated" =>
    \A i \in DOMAIN assembler.asm :
      IsLoad(assembler.asm[i]) =>
        \/ i + 1 <= Len(assembler.asm) /\ assembler.asm[i + 1] = Asm0("nop")
        \/ i + 2 <= Len(assembler.asm) /\ assembler.asm[i + 2] = Asm0("nop")

\* the pass has rewritten or dropped a line of an assembly that loads a
\* variable, a call argument or an array base
C17_Witness ==
  /\ cgPc = "generated"
  /\ assembler.asm # rawAssembly(generator).asm
  /\ \E i, j \in DOMAIN assembler.asm :
       /\ i # j
       /\ IsLoad(assembler.asm[i])
       /\ IsLoad(assembler.asm[j])
       /\ assembler.asm[i][3] # assembler.asm[j][3]

postChecksPass(g) ==
  /\ \A i \in DOMAIN g.postChecks : checker(g, g.postChecks[i]) = "true"
  /\ \E i \in DOMAIN g.functionPool : g.functionPool[i].functionName = "main"
  /\ \A i \in DOMAIN g.functionPool :
       g.functionPool[i].returnType # "void"
         => \/ g.functionPool[i].hasReturnStatement
            \/ Includes(g.functionPool[i].childFunctions, "__asm")

\* C24: a constructor that returns has passed every registered check, has a
\* function main and has no function with a return type other than void
\* and neither a return statement nor a call of __asm; a constructor that
\* throws has produced no basic block
C24_PostChecksGate ==
  /\ irPc = "constructed" => postChecksPass(generator)
  /\ irPc = "thrown" => generator.basicBlocks = <<>>

\* a program without main whose traversal has emitted quadruples and whose
\* post-check has thrown
C24_Witness ==
  /\ irPc = "thrown"
  /\ generator.thrown[1].hint = "no main function"
  /\ generator.instructionList # <<>>
  /\ generator.basicBlocks = <<>>

\* the while statements of a statement, in the order of the traversal
RECURSIVE whilesOf(_)
RECURSIVE whilesOfList(_)
whilesOf(stmt) ==
  IF stmt.stmt = "while_stmt" THEN <<stmt>> \o whilesOf(stmt.body)
  ELSE IF stmt.stmt = "if_stmt"
    THEN whilesOf(stmt.then) \o (IF "else" \in DOMAIN stmt THEN whilesOf(stmt.else) ELSE <<>>)
  ELSE IF stmt.stmt = "compound_stmt" THEN whilesOfList(stmt.stmts)
  ELSE <<>>

whilesOfList(stmts) ==
  IF stmts = <<>> THEN <<>> ELSE whilesOf(Head(stmts)) \o whilesOfList(Tail(stmts))

\* the while statements of the functions of a program
RECURSIVE whilesOfDeclarations(_)
whilesOfDeclarations(decls) ==
  IF decls = <<>> THEN <<>>
  ELSE (IF Head(decls).decl = "fun_decl" THEN whilesOfList(Head(decls).stmts) ELSE <<>>)
         \o whilesOfDeclarations(Tail(decls))

\* how many statements of the kind (break_stmt or continue_stmt) a statement
\* holds outside the while statements inside it
RECURSIVE jumpsOf(_, _)
RECURSIVE jumpsOfList(_, _)
jumpsOf(stmt, kind) ==
  IF stmt.stmt = kind THEN 1
  ELSE IF stmt.stmt = "if_stmt"
    THEN jumpsOf(stmt.then, kind) + (IF "else" \in DOMAIN stmt THEN jumpsOf(stmt.else, kind) ELSE 0)
  ELSE IF stmt.stmt = "compound_stmt" THEN jumpsOfList(stmt.stmts, kind)
  ELSE 0

jumpsOfList(stmts, kind) ==
  IF stmts = <<>> THEN 0 ELSE jumpsOf(Head(stmts), kind) + jumpsOfList(Tail(stmts), kind)

\* the indices of the quadruples that set a loop label
LoopLabels(list) ==
  {i \in DOMAIN list : list[i].operation = "set_label" /\ list[i].result[4] = "loop"}

\* the quadruples from the one that sets a loop label on are those of the
\* while statement: the label, the condition, j_false to the break label, the
\* body with a jump to the break label for each of its break statements and
\* a jump to the loop label for each of its continue statements, the jump to
\* the loop label, the break label
whileEmitted(list, labelled, stmt) ==
  \E branch, closed \in DOMAIN list :
    /\ labelled < branch /\ branch < closed
    /\ \A i \in (labelled + 1)..(branch - 1) :
         list[i].operation \notin {"set_label", "j", "j_false"}
    /\ list[branch].operation = "j_false"
    /\ list[branch].result[4] = "break"
    /\ list[closed].operation = "set_label"
    /\ list[closed].result = list[branch].result
    /\ list[closed - 1].operation = "j"
    /\ list[closed - 1].result = list[labelled].result
    /\ \A i \in DOMAIN list :
         (list[i].operation \in {"j", "j_false"}
            /\ list[i].result \in {list[labelled].result, list[branch].result})
           => (branch <= i /\ i < closed)
    /\ Cardinality({i \in DOMAIN list :
                      list[i].operation = "j" /\ list[i].result = list[labelled].result})
         = 1 + jumpsOf(stmt.body, "continue_stmt")
    /\ Cardinality({i \in DOMAIN list :
                      list[i].operation = "j" /\ list[i].result = list[branch].result})
         = jumpsOf(stmt.body, "break_stmt")

\* C25: in the instruction list of an accepted program every while statement
\* has emitted set_label loop, j_false to its break label, its body, j to its
\* loop label and set_label break in this order; the continue statements of
\* its body outside inner loops jump to its loop label and the break
\* statements to its break label; the loop stack is empty again
C25_WhileIsEmittedInOrder ==
  irPc = "constructed" =>
    /\ generator.loopStack = <<>>
    /\ Cardinality(LoopLabels(generator.instructionList))
         = Len(whilesOfDeclarations(program.decls))
    /\ \A labelled \in LoopLabels(generator.instructionList) :
         whileEmitted(generator.instructionList, labelled,
                      whilesOfDeclarations(program.decls)[
                        Cardinality({i \in LoopLabels(generator.instructionList) : i <= labelled})])

\* an accepted program with a loop inside a loop, the inner one with a break
C25_Witness ==
  /\ irPc = "constructed"
  /\ Cardinality(LoopLabels(generator.instructionList)) = 2
  /\ \E i \in DOMAIN generator.instructionList :
       /\ generator.instructionList[i].operation = "j"
       /\ generator.instructionList[i].result[4] = "break"
  /\ \E i, k \in LoopLabels(generator.instructionList) :
       /\ i < k
       /\ \E closed \in DOMAIN generator.instructionList :
            /\ k < closed
            /\ generator.instructionList[closed].operation = "j"
            /\ generator.instructionList[closed].result = generator.instructionList[i].result

\* the operations that transfer control
ControlTransfers == {"j", "j_false", "return_void", "return_expr"}

\* the last quadruple of the block k of the list of blocks
lastOfBlock(blocks, k) == blocks[k].instructions[Len(blocks[k].instructions)]

\* the block k is the last one of its function: no block follows or the next
\* one begins with the entry label of a function
lastOfFunction(blocks, k) ==
  \/ k = Len(blocks)
  \/ /\ Head(blocks[k + 1].instructions).operation = "set_label"
     /\ Head(blocks[k + 1].instructions).result[Len(Head(blocks[k + 1].instructions).result)]
          \in {"_entry", "__asm_entry"}

\* the block after the block k begins with a label that a jump of the list
\* names
fallsIntoTarget(list, blocks, k) ==
  /\ k < Len(blocks)
  /\ Head(blocks[k + 1].instructions).operation = "set_label"
  /\ \E i \in DOMAIN list :
       /\ list[i].operation \in {"j", "j_false"}
       /\ list[i].result = Head(blocks[k + 1].instructions).result

SteppingAgrees ==
  cgPc \in {"generated", "thrown"} => assembler = AssemblyCodeGenerator(generator)

\* the quadruple the loops stand at
currentQuadruple ==
  At(At(assembler.ir.basicBlocks, cgBlockIndex).instructions, cgIrIndex)

\* lines 882, 989, 1022, 1151 and 1159: the cases of the switch whose last
\* call is manageResDescriptors(regX, result), regX the last of getRegs
endsWithManageResDescriptors(quad) ==
  quad.operation \in {"=const", "PLUS", "MINUS", "[]"}

\* what the claim says of the descriptors after manageResDescriptors(regX, res)
managed(a, regX, res) ==
  /\ MapHas(a.registerDescriptors, regX)
  /\ MapGet(a.registerDescriptors, regX).variables = <<res>>
  /\ \A k \in DOMAIN a.addressDescriptors :
       a.addressDescriptors[k].key # res
         => ~Includes(a.addressDescriptors[k].value.currentAddresses, regX)
  /\ currentAddressesOf(a, res) = <<regX>>
  /\ boundMemAddressOf(a, res) # regX

\* C23: after manageResDescriptors(R, res) the register R holds res alone, R
\* is a current address of no other variable, and R is the one current
\* address of res
C23_ManagedResult ==
  (cgPc = "blockEnd" /\ Ok(assembler) /\ endsWithManageResDescriptors(currentQuadruple))
    => managed(assembler, assembler.ret[Len(assembler.ret)], currentQuadruple.result)

\* the registers that have a descriptor
DescribedRegisters(a) ==
  {a.registerDescriptors[i].key : i \in DOMAIN a.registerDescriptors}

\* the variables that have an address descriptor
DescribedVariables(a) ==
  {a.addressDescriptors[i].key : i \in DOMAIN a.addressDescriptors}

\* register is one of the current addresses of varId
addressListsRegister(a, varId, register) == Includes(currentAddressesOf(a, varId), register)

\* the two descriptor tables say the same of every register and variable
DescriptorsAgree(a) ==
  /\ \A register \in DescribedRegisters(a) :
       \A varId \in {MapGet(a.registerDescriptors, register).variables[k] :
                      k \in DOMAIN MapGet(a.registerDescriptors, register).variables} :
         addressListsRegister(a, varId, register)
  /\ \A varId \in DescribedVariables(a) :
       \A register \in DescribedRegisters(a) :
         addressListsRegister(a, varId, register) => registerHolds(a, register, varId)

\* C27: after every quadruple the code generator has processed, a register is
\* one of the current addresses of a variable exactly when the variable is in
\* the register's variable set
C27_DescriptorsAgree ==
  (cgPc \in {"switch", "emitted"} /\ Ok(assembler)) => DescriptorsAgree(assembler)

\* the quadruples of the blocks from blockIndex on
RECURSIVE restOfBlocks(_, _)
restOfBlocks(blocks, blockIndex) ==
  IF ~(blockIndex < Len(blocks)) THEN <<>>
  ELSE At(blocks, blockIndex).instructions \o restOfBlocks(blocks, blockIndex + 1)

\* the quadruples after the quadruple irIndex of the block blockIndex
laterQuadruples(a, blockIndex, irIndex) ==
  SubSeq(At(a.ir.basicBlocks, blockIndex).instructions, irIndex + 2,
         Len(At(a.ir.basicBlocks, blockIndex).instructions))
    \o restOfBlocks(a.ir.basicBlocks, blockIndex + 1)

\* varId is named after the quadruple, before the procedure's exit label
referencedLater(a, blockIndex, irIndex, varId) ==
  reused(laterQuadruples(a, blockIndex, irIndex), 0, varId)

\* register is the one place where the value of varId is
onlyIn(a, varId, register) ==
  /\ registerHolds(a, register, varId)
  /\ currentAddressesOf(a, varId) = <<register>>

\* the lines that b has and a has not
linesSince(a, b) == SubSeq(b.asm, Len(a.asm) + 1, Len(b.asm))

\* C21: a register that is the only place of a variable referenced later in
\* the procedure is not given to another variable by a quadruple unless the
\* quadruple stores the variable to its bound memory address; with no bound
\* memory address the allocation is a fatal error
C21_EvictionKeepsNeededValues ==
  [][(cgPc = "switch" /\ cgPc' = "blockEnd") =>
       \A register \in DescribedRegisters(assembler) :
         \A varId \in DescribedVariables(assembler) :
           ( /\ onlyIn(assembler, varId, register)
             /\ referencedLater(assembler, cgBlockIndex, cgIrIndex, varId)
             /\ ~registerHolds(assembler', register, varId) )
           => /\ boundMemAddressOf(assembler, varId) # UndefinedString
              /\ Includes(linesSince(assembler, assembler'),
                          Asm2("sw", register, boundMemAddressOf(assembler, varId)))]_vars

\* lines 1005, 1205 and 1236-1238: the step calls deallocateBlockMemory at the
\* boundary of a block
BlockBoundary ==
  \/ /\ cgPc = "switch"
     /\ currentQuadruple.operation \in {"j", "j_false"}
  \/ /\ cgPc = "blockEnd"
     /\ currentQuadruple.operation \notin {"set_label", "j", "j_false"}
     /\ cgIrIndex = Len(At(assembler.ir.basicBlocks, cgBlockIndex).instructions) - 1

\* the value of varId is in a register, and not at its bound memory address
stale(a, varId) ==
  /\ boundMemAddressOf(a, varId) # UndefinedString
  /\ firstRegister(currentAddressesOf(a, varId)) # EmptyString
  /\ ~Includes(currentAddressesOf(a, varId), boundMemAddressOf(a, varId))

\* no register holds a variable and no variable is in a register
cold(a) ==
  /\ \A k \in DOMAIN a.registerDescriptors : a.registerDescriptors[k].value.variables = <<>>
  /\ \A k \in DOMAIN a.addressDescriptors :
       \A j \in DOMAIN a.addressDescriptors[k].value.currentAddresses :
         ~startsWithDollar(a.addressDescriptors[k].value.currentAddresses[j])

\* C22: a step at a block boundary stores every variable whose value is not
\* at its bound memory address, from a register that holds the variable,
\* and leaves no variable in a register
C22_BlockBoundaryFlushes ==
  [][(BlockBoundary /\ cgPc' \in {"blockEnd", "switch", "emitted"}) =>
       /\ \A varId \in DescribedVariables(assembler) :
            stale(assembler, varId) =>
              \E register \in DescribedRegisters(assembler) :
                /\ registerHolds(assembler, register, varId)
                /\ Includes(linesSince(assembler, assembler'),
                            Asm2("sw", register, boundMemAddressOf(assembler, varId)))
       /\ cold(assembler')]_vars

\* the step is the prologue of a function
EntryStep ==
  /\ cgPc = "switch"
  /\ cgPc' = "blockEnd"
  /\ currentQuadruple.operation = "set_label"
  /\ labelType(currentQuadruple.result) = "entry"

\* the words of the frame, from $sp, where the lines store register; the
\* words looked at reach beyond the frame
wordsStoring(lines, register, wordSize) ==
  {word \in 0..(wordSize + 8) : Includes(lines, Asm2("sw", register, StackSlot(word)))}

\* the slots of a frame as <<kind, index, word>>: the return address, the
\* saved registers, the locals that are no parameters, the outgoing arguments
frameSlots(a, lines) ==
  LET frameInfo == a.currentFrameInfo
      func == a.currentFunc
  IN {<<"ra", 0, word>> : word \in wordsStoring(lines, <<"$ra">>, frameInfo.wordSize)}
     \cup UNION {{<<"saved", index, word>> :
                    word \in wordsStoring(lines, SavedRegister(index), frameInfo.wordSize)} :
                  index \in 0..7}
     \cup UNION {{<<"local", k, word>> :
                    word \in {w \in 0..(frameInfo.wordSize + 8) :
                                boundMemAddressOf(a, func.localVariables[k]) = StackSlot(w)}} :
                  k \in {j \in DOMAIN func.localVariables :
                           ~Includes(func.parameterList, func.localVariables[j])}}
     \cup {<<"outgoing", word, word>> : word \in 0..(frameInfo.outgoingSlots - 1)}

\* C28: the slots of $ra, of the saved $s registers, of the locals and of the
\* outgoing arguments of a frame are pairwise distinct and inside the
\* 4 * wordSize bytes that the prologue allocates
C28_FrameSlotsAreDistinct ==
  [][EntryStep =>
       \A p, q \in frameSlots(assembler', linesSince(assembler, assembler')) :
         /\ p[3] < assembler'.currentFrameInfo.wordSize
         /\ p # q => p[3] # q[3]]_vars

====
